---------------------------- MODULE Spec2Model ----------------------------
(***************************************************************************)
(* Model of the dBrother pore-structure report engine.                     *)
(*                                                                         *)
(* Texts and table cells are sequences of characters (one string per code  *)
(* point; a CJK character is written as its pinyin name, because the       *)
(* module is ASCII).  Floats are exact rationals <<n, d>> in lowest terms  *)
(* with d > 0: rounding error of IEEE doubles is outside the model.        *)
(***************************************************************************)
EXTENDS Integers, Sequences, FiniteSets, TLC

VARIABLES
    pc,       \* position of the current call
    report,   \* how the input text was laid out (what the text is rendered from)
    text,     \* the extracted report text, a sequence of characters
    lines,    \* parse_nldft_pairs: the lines of the NLDFT block
    i,        \* parse_nldft_pairs: the scan index (0-based, as in the code)
    data,     \* the series (list of NldftData)
    target,   \* the interpolation target
    ret,      \* the value an interpolation call returned
    pdf,      \* the pages of the input PDF as pdfplumber reads them
    result    \* what an orchestrator call gave back to its caller

vars == <<pc, report, text, lines, i, data, target, ret, pdf, result>>

(***************************************************************************)
(* Bounds of the model.                                                    *)
(***************************************************************************)
MaxSeries == 3

MaxRows == 3

MaxMalformed == 1

(***************************************************************************)
(* Exact arithmetic.                                                       *)
(***************************************************************************)
Abs(x) == IF x < 0 THEN -x ELSE x

MinOf(S) == CHOOSE x \in S : \A y \in S : x <= y

Max2(a, b) == IF a >= b THEN a ELSE b

\* Euclid's algorithm; the remainder is computed once per step
RECURSIVE GCD(_, _)
GCD(a, b) == IF b = 0 THEN a ELSE CHOOSE g \in {GCD(y, x % y) : x \in {a}, y \in {b}} : TRUE

\* the fraction n / d in lowest terms, the denominator positive
Rat(n, d) ==
    CHOOSE q \in {IF x = 0 THEN <<0, 1>>
                  ELSE <<((IF y < 0 THEN -1 ELSE 1) * x) \div g,
                         ((IF y < 0 THEN -1 ELSE 1) * y) \div g>> :
                      x \in {n}, y \in {d}, g \in {GCD(Abs(n), Abs(d))}} : TRUE

RZero == <<0, 1>>

RAdd(a, b) == Rat(a[1] * b[2] + b[1] * a[2], a[2] * b[2])

RSub(a, b) == Rat(a[1] * b[2] - b[1] * a[2], a[2] * b[2])

RMul(a, b) == Rat(a[1] * b[1], a[2] * b[2])

RDiv(a, b) == Rat(a[1] * b[2], a[2] * b[1])

RLt(a, b) == a[1] * b[2] < b[1] * a[2]

RLe(a, b) == a[1] * b[2] <= b[1] * a[2]

(* math.isclose(a, b, rel_tol=1e-12, abs_tol=1e-15):                        *)
(*   |a-b| <= max(1e-12 * max(|a|,|b|), 1e-15)                              *)
(* over rationals, cleared of denominators; 10^12 and 10^15 are applied as  *)
(* successive floor divisions so that every intermediate fits an integer.   *)
IsClose(a, b) ==
    LET x == Abs(a[1] * b[2] - b[1] * a[2])
        y == Max2(Abs(a[1]) * b[2], Abs(b[1]) * a[2])
        z == a[2] * b[2]
        rel == (y \div 1000000) \div 1000000
        abt == ((z \div 100000) \div 100000) \div 100000
    IN  x <= Max2(rel, abt)

(***************************************************************************)
(* NldftData and the two interpolation walks.                              *)
(***************************************************************************)
NldftData(d, v) == [average_pore_diameter |-> d, pore_integral_volume |-> v]

\* a variant that drops the intercept b
Linear_no_intercept(x_lo, y_lo, x_hi, y_hi, t) ==
    RMul(RDiv(RSub(y_hi, y_lo), RSub(x_hi, x_lo)), t)

\* One linear-interpolation step: k * target + b with k, b as the code forms them.
Linear(x_lo, y_lo, x_hi, y_hi, t) ==
    LET dx == RSub(x_hi, x_lo)
        k  == RDiv(RSub(y_hi, y_lo), dx)
        b  == RSub(y_lo, RMul(k, x_lo))
    IN  RAdd(RMul(k, t), b)

\* The for-loop of interpolate_diameter from row idx on; lower = 0 is None.
RECURSIVE WalkDiameter(_, _, _, _)
WalkDiameter(target_volume, rows, idx, lower) ==
    IF idx > Len(rows) THEN rows[Len(rows)].average_pore_diameter
    ELSE LET row == rows[idx] IN
         IF IsClose(row.pore_integral_volume, target_volume)
         THEN row.average_pore_diameter
         ELSE IF RLt(row.pore_integral_volume, target_volume)
         THEN WalkDiameter(target_volume, rows, idx + 1, idx)
         ELSE IF RLt(target_volume, row.pore_integral_volume)
         THEN IF lower = 0 THEN row.average_pore_diameter
              ELSE IF RSub(row.pore_integral_volume, rows[lower].pore_integral_volume) = RZero
              THEN rows[lower].average_pore_diameter
              ELSE Linear(rows[lower].pore_integral_volume, rows[lower].average_pore_diameter,
                          row.pore_integral_volume, row.average_pore_diameter, target_volume)
         ELSE WalkDiameter(target_volume, rows, idx + 1, lower)

\* A walk without the exact-match return (the plausible slip for the identity).
interpolate_diameter_no_exact(target_volume, rows) ==
    IF rows = <<>> THEN RZero
    ELSE LET below == {j \in 1..Len(rows) : RLt(rows[j].pore_integral_volume, target_volume)}
             above == {j \in 1..Len(rows) : RLt(target_volume, rows[j].pore_integral_volume)}
         IN  IF above = {} \/ below = {} THEN rows[Len(rows)].average_pore_diameter
             ELSE rows[CHOOSE j \in above : \A q \in above : j <= q].average_pore_diameter

\* A walk that returns the first row when the target lies above the series.
interpolate_diameter_first_at_end(target_volume, rows) ==
    IF rows = <<>> THEN RZero
    ELSE IF \A j \in 1..Len(rows) : RLt(rows[j].pore_integral_volume, target_volume)
         THEN rows[1].average_pore_diameter
         ELSE WalkDiameter(target_volume, rows, 1, 0)

interpolate_diameter(target_volume, rows) ==
    IF rows = <<>> THEN RZero ELSE WalkDiameter(target_volume, rows, 1, 0)

RECURSIVE WalkVolume(_, _, _, _)
WalkVolume(target_diameter, rows, idx, lower) ==
    IF idx > Len(rows) THEN rows[Len(rows)].pore_integral_volume
    ELSE LET row == rows[idx] IN
         IF IsClose(row.average_pore_diameter, target_diameter)
         THEN row.pore_integral_volume
         ELSE IF RLt(row.average_pore_diameter, target_diameter)
         THEN WalkVolume(target_diameter, rows, idx + 1, idx)
         ELSE IF RLt(target_diameter, row.average_pore_diameter)
         THEN IF lower = 0 THEN row.pore_integral_volume
              ELSE IF RSub(row.average_pore_diameter, rows[lower].average_pore_diameter) = RZero
              THEN rows[lower].pore_integral_volume
              ELSE Linear(rows[lower].average_pore_diameter, rows[lower].pore_integral_volume,
                          row.average_pore_diameter, row.pore_integral_volume, target_diameter)
         ELSE WalkVolume(target_diameter, rows, idx + 1, lower)

interpolate_volume(target_diameter, rows) ==
    IF rows = <<>> THEN RZero ELSE WalkVolume(target_diameter, rows, 1, 0)

(***************************************************************************)
(* list.sort(key=...) is stable: insertion after the last element whose    *)
(* key is not greater.                                                     *)
(***************************************************************************)
RECURSIVE InsertByVolume(_, _)
InsertByVolume(sorted, r) ==
    IF sorted = <<>> THEN <<r>>
    ELSE LET last == sorted[Len(sorted)] IN
         IF RLe(last.pore_integral_volume, r.pore_integral_volume)
         THEN Append(sorted, r)
         ELSE Append(InsertByVolume(SubSeq(sorted, 1, Len(sorted) - 1), r), last)

RECURSIVE SortByVolumeFrom(_, _, _)
SortByVolumeFrom(rows, idx, acc) ==
    IF idx > Len(rows) THEN acc
    ELSE SortByVolumeFrom(rows, idx + 1, InsertByVolume(acc, rows[idx]))

\* data.sort(key=lambda r: r.pore_integral_volume)
SortByVolume(rows) == SortByVolumeFrom(rows, 1, <<>>)

(***************************************************************************)
(* Characters and the regular expressions of the line-stream backend.      *)
(* Positions p are 1-based; Len(s) + 1 is the end.  A matcher returns the   *)
(* position after the match, or 0 when there is no match.                  *)
(***************************************************************************)
Digits == <<"0", "1", "2", "3", "4", "5", "6", "7", "8", "9">>

IsDigit(c) == \E v \in 1..10 : Digits[v] = c

DigitVal(c) == (CHOOSE v \in 1..10 : Digits[v] = c) - 1

\* str.strip() and the regex class \s, over the characters texts are made of
IsSpace(c) == c \in {" ", "\t", "\n"}

\* the three hyphens range_re accepts: - (hyphen), en dash, em dash
Dashes == {"-", "endash", "emdash"}

RECURSIVE SkipDigits(_, _)
SkipDigits(s, p) ==
    IF p <= Len(s) /\ IsDigit(s[p]) THEN SkipDigits(s, p + 1) ELSE p

RECURSIVE SkipSpaces(_, _)
SkipSpaces(s, p) ==
    IF p <= Len(s) /\ IsSpace(s[p]) THEN SkipSpaces(s, p + 1) ELSE p

RECURSIVE SkipSpacesBack(_, _)
SkipSpacesBack(s, p) ==
    IF p >= 1 /\ IsSpace(s[p]) THEN SkipSpacesBack(s, p - 1) ELSE p

\* str.strip()
Strip(s) ==
    LET a == SkipSpaces(s, 1)
        b == SkipSpacesBack(s, Len(s))
    IN  IF a > b THEN <<>> ELSE SubSeq(s, a, b)

\* \d+(?:\.\d+)?
DecimalEnd(s, p) ==
    LET q == SkipDigits(s, p) IN
    IF q = p THEN 0
    ELSE IF q <= Len(s) /\ s[q] = "." /\ SkipDigits(s, q + 1) > q + 1
         THEN SkipDigits(s, q + 1)
         ELSE q

\* (?:[eE][+-]?\d+)?
ExponentEnd(s, p) ==
    IF p <= Len(s) /\ s[p] \in {"e", "E"}
    THEN LET q == IF p + 1 <= Len(s) /\ s[p + 1] \in {"+", "-"} THEN p + 2 ELSE p + 1
             r == SkipDigits(s, q)
         IN  IF r > q THEN r ELSE p
    ELSE p

SkipSign(s, p) == IF p <= Len(s) /\ s[p] \in {"+", "-"} THEN p + 1 ELSE p

\* float_re = ^[+-]?\d+(?:\.\d+)?(?:[eE][+-]?\d+)?$
float_re(s) ==
    LET q == DecimalEnd(s, SkipSign(s, 1)) IN
    q # 0 /\ ExponentEnd(s, q) = Len(s) + 1

\* range_re = ^\d+(?:\.\d+)?[-en dash-em dash]\d+(?:\.\d+)?$
range_re(s) ==
    LET q == DecimalEnd(s, 1) IN
    /\ q # 0
    /\ q <= Len(s)
    /\ s[q] \in Dashes
    /\ DecimalEnd(s, q + 1) = Len(s) + 1

RECURSIVE Pow10(_)
Pow10(k) == IF k <= 0 THEN 1 ELSE 10 * Pow10(k - 1)

\* the integer written by the digits s[from..to-1] (0 when there are none)
RECURSIVE DigitsValue(_, _, _)
DigitsValue(s, from, to) ==
    IF to <= from THEN 0
    ELSE 10 * DigitsValue(s, from, to - 1) + DigitVal(s[to - 1])

\* float(s) for a literal  [+-]? digits [. digits*] [(e|E) [+-]? digits]
ParseFloat(s) ==
    LET p0   == SkipSign(s, 1)
        sign == IF p0 > 1 /\ s[1] = "-" THEN -1 ELSE 1
        p1   == SkipDigits(s, p0)
        dot  == p1 <= Len(s) /\ s[p1] = "."
        p2   == IF dot THEN SkipDigits(s, p1 + 1) ELSE p1
        fd   == IF dot THEN p2 - (p1 + 1) ELSE 0
        mant == DigitsValue(s, p0, p1) * Pow10(fd)
                   + (IF dot THEN DigitsValue(s, p1 + 1, p2) ELSE 0)
        p3   == ExponentEnd(s, p2)
        eneg == p3 > p2 /\ s[p2 + 1] = "-"
        e0   == IF p3 > p2
                THEN DigitsValue(s, (IF s[p2 + 1] \in {"+", "-"} THEN p2 + 2 ELSE p2 + 1), p3)
                ELSE 0
    IN  IF eneg THEN Rat(sign * mant, Pow10(fd) * Pow10(e0))
        ELSE Rat(sign * mant * Pow10(e0), Pow10(fd))

\* str.splitlines() for texts whose only line break is \n
RECURSIVE SplitLinesFrom(_, _)
SplitLinesFrom(s, from) ==
    LET breaks == {p \in from..Len(s) : s[p] = "\n"} IN
    IF from > Len(s) THEN <<>>
    ELSE IF breaks = {} THEN <<SubSeq(s, from, Len(s))>>
    ELSE <<SubSeq(s, from, MinOf(breaks) - 1)>> \o SplitLinesFrom(s, MinOf(breaks) + 1)

SplitLines(s) == SplitLinesFrom(s, 1)

(***************************************************************************)
(* Anchor patterns: a pattern is a sequence of items, a literal character, *)
(* \s* or an optional character; a regex is an ordered list of patterns.   *)
(***************************************************************************)
Lit(c) == [k |-> "lit", c |-> c]

Ws == [k |-> "ws", c |-> ""]

Opt(c) == [k |-> "opt", c |-> c]

Lits(cs) == [j \in 1..Len(cs) |-> Lit(cs[j])]

\* c1 \s* c2 \s* ... cn
RECURSIVE Spaced(_)
Spaced(cs) ==
    IF Len(cs) <= 1 THEN Lits(cs)
    ELSE <<Lit(cs[1]), Ws>> \o Spaced(Tail(cs))

RECURSIVE MatchItems(_, _, _, _)
MatchItems(pat, pi, s, p) ==
    IF pi > Len(pat) THEN p
    ELSE LET it == pat[pi] IN
         IF it.k = "lit"
         THEN IF p <= Len(s) /\ s[p] = it.c THEN MatchItems(pat, pi + 1, s, p + 1) ELSE 0
         ELSE IF it.k = "ws"
         THEN MatchItems(pat, pi + 1, s, SkipSpaces(s, p))
         ELSE IF p <= Len(s) /\ s[p] = it.c /\ MatchItems(pat, pi + 1, s, p + 1) # 0
              THEN MatchItems(pat, pi + 1, s, p + 1)
              ELSE MatchItems(pat, pi + 1, s, p)

RECURSIVE MatchAlts(_, _, _, _)
MatchAlts(alts, ai, s, p) ==
    IF ai > Len(alts) THEN 0
    ELSE IF MatchItems(alts[ai], 1, s, p) # 0 THEN MatchItems(alts[ai], 1, s, p)
    ELSE MatchAlts(alts, ai + 1, s, p)

\* re.search: the leftmost match at or after p, <<start, end>>, or <<0, 0>>
SearchAlts(alts, s, p) ==
    LET starts == {q \in p..Len(s) : MatchAlts(alts, 1, s, q) # 0} IN
    IF starts = {} THEN <<0, 0>>
    ELSE <<MinOf(starts), MatchAlts(alts, 1, s, MinOf(starts))>>

\* the literal parts of the anchors: NLDFT, "xiang xi shu ju" (detailed data),
\* "xi fu" (adsorption), "xiang xi ce shi shu ju" (detailed test data)
C ==
    [NLDFT |->
        <<"N", "L", "D", "F", "T">>,
     DetailedData |->
        <<"xiang2", "xi4", "shu4", "ju4">>,
     Adsorption |->
        <<"xi1", "fu4">>,
     DetailedTestData |->
        <<"xiang2", "xi4", "ce4", "shi4", "shu4", "ju4">>]

start_pattern ==
    << Lits(C.NLDFT) \o <<Ws>> \o Spaced(C.DetailedData),
       Lits(C.NLDFT) \o <<Ws>> \o Lits(C.DetailedData),
       Spaced(C.DetailedData) \o <<Ws>> \o Lits(C.NLDFT),
       Lits(C.DetailedData) \o <<Ws>> \o Lits(C.NLDFT) >>

end_pattern ==
    << Spaced(C.Adsorption \o C.DetailedTestData),
       Lits(C.Adsorption) \o <<Ws>> \o Lits(C.DetailedTestData),
       <<Lit("V"), Opt("-")>> \o Lits(<<"S", "o", "r", "b">>),
       Lits(<<"w", "w", "w", ".", "u", "l", "t", "m", "e", "t", "r", "i", "c", "s",
              ".", "c", "o", "m">>) >>

(***************************************************************************)
(* parse_nldft_pairs (pdf_processor.py).                                   *)
(***************************************************************************)
\* the block taken from the start anchor to the end of the text
NldftBlockLines_to_end(t) ==
    IF SearchAlts(start_pattern, t, 1)[1] = 0 THEN [found |-> FALSE, lines |-> <<>>]
    ELSE [found |-> TRUE,
          lines |-> SplitLines(SubSeq(t, SearchAlts(start_pattern, t, 1)[2], Len(t)))]

\* the lines of the NLDFT block; <<FALSE, <<>>>> when there is no start anchor
NldftBlockLines(t) ==
    LET sm == SearchAlts(start_pattern, t, 1) IN
    IF sm[1] = 0 THEN [found |-> FALSE, lines |-> <<>>]
    ELSE LET text_after_start == SubSeq(t, sm[2], Len(t))
             em == SearchAlts(end_pattern, text_after_start, 1)
             nldft_block == IF em[1] # 0
                            THEN SubSeq(text_after_start, 1, em[1] - 1)
                            ELSE text_after_start
         IN  [found |-> TRUE, lines |-> SplitLines(nldft_block)]

\* next_nonempty(idx), 0-based as in the code
RECURSIVE next_nonempty(_, _)
next_nonempty(ls, idx) ==
    IF idx < Len(ls) /\ Strip(ls[idx + 1]) = <<>>
    THEN next_nonempty(ls, idx + 1)
    ELSE idx

\* the scan sent back to the first line after a row
RowEnd_rescan(ls, m) == 0

\* i = (n if n > m else m) + 1 with n = next_nonempty(m + 1)
RowEnd(ls, m) ==
    LET n == next_nonempty(ls, m + 1) IN
    (IF n > m THEN n ELSE m) + 1

\* lines[idx].strip(), empty past the last line
StripAt(ls, idx) == IF idx < Len(ls) THEN Strip(ls[idx + 1]) ELSE <<>>

\* One iteration of the while loop at index idx (idx < len(lines)), with
\* j, k, m the indexes next_nonempty gave and s, s_avg, s_diff, s_int the
\* stripped lines at idx, j, k, m: what it does (kind), the next index, and
\* the sample it appends.
ScanIterAt(ls, idx, j, k, m, s, s_avg, s_diff, s_int) ==
    LET none == NldftData(RZero, RZero) IN
    IF ~range_re(s)
    THEN [kind |-> "skip", i |-> idx + 1, row |-> none]
    ELSE IF j >= Len(ls) THEN [kind |-> "break", i |-> idx, row |-> none]
    ELSE IF ~float_re(s_avg)
    THEN [kind |-> "retry", i |-> idx + 1, row |-> none]
    ELSE IF k >= Len(ls) THEN [kind |-> "break", i |-> idx, row |-> none]
    ELSE IF ~float_re(s_diff)
    THEN [kind |-> "retry", i |-> idx + 1, row |-> none]
    ELSE IF m >= Len(ls) THEN [kind |-> "break", i |-> idx, row |-> none]
    ELSE IF ~float_re(s_int)
    THEN [kind |-> "retry", i |-> idx + 1, row |-> none]
    ELSE [kind |-> "emit", i |-> RowEnd(ls, m),
          row |-> NldftData(ParseFloat(s_avg), ParseFloat(s_int))]

\* j = next_nonempty(i + 1), k = next_nonempty(j + 1), m = next_nonempty(k + 1)
\* and the stripped lines, each computed once
ScanIter(ls, idx) ==
    CHOOSE it \in
        UNION {UNION {UNION {{ScanIterAt(ls, idx, j, k, m, c[1], c[2], c[3], c[4]) :
                                 c \in {<<StripAt(ls, idx), StripAt(ls, j), StripAt(ls, k),
                                          StripAt(ls, m)>>}} :
                             m \in {next_nonempty(ls, k + 1)}} :
                      k \in {next_nonempty(ls, j + 1)}} :
               j \in {next_nonempty(ls, idx + 1)}} : TRUE

\* the while loop run to its end: the rows appended, in scan order
RECURSIVE ScanRows(_, _, _)
ScanRows(ls, idx, acc) ==
    IF idx >= Len(ls) THEN acc
    ELSE LET it == ScanIter(ls, idx) IN
         IF it.kind = "break" THEN acc
         ELSE IF it.kind = "emit" THEN ScanRows(ls, it.i, Append(acc, it.row))
         ELSE ScanRows(ls, it.i, acc)

parse_nldft_pairs(t) ==
    LET blk == NldftBlockLines(t) IN
    IF ~blk.found THEN <<>> ELSE SortByVolume(ScanRows(blk.lines, 0, <<>>))

(***************************************************************************)
(* Keyword-anchored scalars (pdf_processor.py): section_text,              *)
(* extract_value_near, extract_surface_area_map.  Offsets named pos, start,*)
(* end, rel are 0-based as in the code.                                    *)
(***************************************************************************)
\* s[p..] starts with the literal kw
StartsWith(kw, s, p) ==
    /\ p + Len(kw) - 1 <= Len(s)
    /\ \A j \in 1..Len(kw) : s[p + j - 1] = kw[j]

\* str.find(kw, from0): 0-based offset of the first occurrence at or after
\* offset from0, or -1
Find(kw, s, from0) ==
    LET found == {at \in from0..(Len(s) - Len(kw)) : StartsWith(kw, s, at + 1)} IN
    IF found = {} THEN -1 ELSE MinOf(found)

\* [m.start() for m in re.finditer(re.escape(kw), s)]: non-overlapping, 0-based
RECURSIVE FindAllFrom(_, _, _)
FindAllFrom(kw, s, from0) ==
    LET at == Find(kw, s, from0) IN
    IF at = -1 THEN <<>> ELSE <<at>> \o FindAllFrom(kw, s, at + Len(kw))

FindAll(kw, s) == FindAllFrom(kw, s, 0)

RECURSIVE SkipDigitsCommas(_, _)
SkipDigitsCommas(s, p) ==
    IF p <= Len(s) /\ (IsDigit(s[p]) \/ s[p] = ",") THEN SkipDigitsCommas(s, p + 1) ELSE p

\* [+-]?\d[\d,]*\.?\d*(?:[eE][+-]?\d+)?  at p
NumEnd(s, p) ==
    LET p0 == SkipSign(s, p) IN
    IF ~(p0 <= Len(s) /\ IsDigit(s[p0])) THEN 0
    ELSE LET p1 == SkipDigitsCommas(s, p0 + 1)
             p2 == IF p1 <= Len(s) /\ s[p1] = "." THEN p1 + 1 ELSE p1
         IN  ExponentEnd(s, SkipDigits(s, p2))

\* \s*\(unit\) at p, for a literal unit
UnitEnd(s, p, unit) ==
    LET q == SkipSpaces(s, p) IN
    IF q <= Len(s) /\ s[q] = "(" /\ StartsWith(unit, s, q + 1)
          /\ q + Len(unit) + 1 <= Len(s) /\ s[q + Len(unit) + 1] = ")"
    THEN q + Len(unit) + 2
    ELSE 0

\* pattern.finditer(s): the matches of number(unit) in order,
\* each [a, b, g]: match s[a..b-1], group(1) = s[a..g-1] (1-based)
RECURSIVE NumUnitMatches(_, _, _)
NumUnitMatches(s, p, unit) ==
    LET MatchEnd(q) == IF NumEnd(s, q) = 0 THEN 0 ELSE UnitEnd(s, NumEnd(s, q), unit)
        starts == {q \in p..Len(s) : MatchEnd(q) # 0}
    IN  IF starts = {} THEN <<>>
        ELSE LET a == MinOf(starts) IN
             <<[a |-> a, b |-> MatchEnd(a), g |-> NumEnd(s, a)]>>
                \o NumUnitMatches(s, MatchEnd(a), unit)

\* .replace(",", "")
RECURSIVE RemoveCommas(_)
RemoveCommas(s) ==
    IF s = <<>> THEN <<>>
    ELSE (IF Head(s) = "," THEN <<>> ELSE <<Head(s)>>) \o RemoveCommas(Tail(s))

\* the unit_regex arguments, as the literal text they match
U ==
    [m2g |->
        <<"m", "^", "2", "/", "g">>,
     cm3g |->
        <<"c", "m", "^", "3", "/", "g">>,
     nm |->
        <<"n", "m">>]

\* the distance without the post-reference discount
Distance2_no_discount(kw_pos, ref_pos) == 2 * Abs(kw_pos - ref_pos)

\* twice the distance of keyword occurrence kw_pos from reference ref_pos,
\* halved when the keyword lies after the reference
Distance2(kw_pos, ref_pos) ==
    IF kw_pos > ref_pos THEN Abs(kw_pos - ref_pos) ELSE 2 * Abs(kw_pos - ref_pos)

\* the loops at lines 105-116: ref outer, keyword inner, strict < keeps the
\* first minimum; best = -1 is None
RECURSIVE BestMatch(_, _, _, _, _, _)
BestMatch(refs, kws, ri, ki, best, min2) ==
    IF ri > Len(refs) THEN best
    ELSE IF ki > Len(kws) THEN BestMatch(refs, kws, ri + 1, 1, best, min2)
    ELSE LET d2 == Distance2(kws[ki], refs[ri]) IN
         IF min2 = -1 \/ d2 < min2
         THEN BestMatch(refs, kws, ri, ki + 1, kws[ki], d2)
         ELSE BestMatch(refs, kws, ri, ki + 1, best, min2)

\* the first match in text order, whatever its distance
ClosestFrom_first_match(ms, idx, rel, best) == IF ms = <<>> THEN 0 ELSE 1

\* cands.sort(key=dist); cands[0]: the first match of least distance
\* between its centre and rel (distances doubled: a + b - 2 - 2 rel)
RECURSIVE ClosestFrom(_, _, _, _)
ClosestFrom(ms, idx, rel, best) ==
    IF idx > Len(ms) THEN best
    ELSE LET d2(m) == Abs((m.a - 1) + (m.b - 1) - 2 * rel) IN
         IF best = 0 \/ d2(ms[idx]) < d2(ms[best])
         THEN ClosestFrom(ms, idx + 1, rel, idx)
         ELSE ClosestFrom(ms, idx + 1, rel, best)

\* lines 122-143: the value nearest to the anchor at offset pos
ValueAround(t, pos, unit, window) ==
    LET start   == Max2(0, pos - window \div 2)
        end     == IF Len(t) < pos + window \div 2 THEN Len(t) ELSE pos + window \div 2
        segment == SubSeq(t, start + 1, end)
        rel     == pos - start
        ms      == NumUnitMatches(segment, 1, unit)
        best    == ClosestFrom(ms, 1, rel, 0)
    IN  IF ms = <<>> THEN <<>>
        ELSE RemoveCommas(SubSeq(segment, ms[best].a, ms[best].g - 1))

\* extract_value_near; reference_keyword = <<>> is None
extract_value_near(t, keyword, unit, window, reference_keyword) ==
    LET matches == FindAll(keyword, t)
        refs    == IF reference_keyword = <<>> THEN <<>> ELSE FindAll(reference_keyword, t)
        pos     == IF refs # <<>> THEN BestMatch(refs, matches, 1, 1, -1, -1) ELSE matches[1]
    IN  IF matches = <<>> THEN <<>> ELSE ValueAround(t, pos, unit, window)

RECURSIVE MinEnd(_, _, _, _, _)
MinEnd(t, end_labels, li, from0, best) ==
    IF li > Len(end_labels) THEN best
    ELSE LET at == Find(end_labels[li], t, from0) IN
         MinEnd(t, end_labels, li + 1, from0,
                IF at # -1 /\ (best = -1 \/ at < best) THEN at ELSE best)

\* the section taken from the start label to the end of the text
section_text_to_end(t, start_label, end_labels) ==
    IF Find(start_label, t, 0) = -1 THEN <<>>
    ELSE SubSeq(t, Find(start_label, t, 0) + 1, Len(t))

section_text(t, start_label, end_labels) ==
    LET start == Find(start_label, t, 0)
        e     == MinEnd(t, end_labels, 1, start + Len(start_label), -1)
        end   == IF e = -1 THEN Len(t) ELSE e
    IN  IF start = -1 THEN <<>> ELSE SubSeq(t, start + 1, end)

\* the section titles and the scalar keywords
K ==
    [SurfaceAreaReport |->
        <<"bi3", "biao3", "mian4", "ji1", "fen1", "xi1x", "bao4", "gao4">>,
     PoreVolumeReport |->
        <<"kong3", "ti3", "ji1", "fen1", "xi1x", "bao4", "gao4">>,
     PoreSizeReport |->
        <<"kong3", "jing4", "fen1", "xi1x", "bao4", "gao4">>,
     SurfaceAndPoreReport |->
        <<"bi3", "biao3", "mian4", "ji2", "kong3", "jing4", "fen1", "xi1x", "bao4", "gao4">>,
     SinglePointBET |->
        <<"dan1", "dian3", "B", "E", "T", "bi3", "biao3", "mian4", "ji1">>,
     MultiPointBET |->
        <<"duo1", "dian3", "B", "E", "T", "bi3", "biao3", "mian4", "ji1">>,
     TotalPoreVolume |->
        <<"zui4", "gao1", "dan1", "dian3", "xi1", "fu4", "zong3", "kong3", "ti3", "ji1">>,
     AveragePoreDiameter |->
        <<"dan1", "dian3", "zong3", "kong3", "xi1", "fu4", "ping2", "jun1", "kong3", "zhi2", "jing4">>,
     MostProbable |->
        <<"zui4", "ke3", "ji3", "kong3", "jing4">>]

\* the values of the labels in label order (a label beyond the list's length
\* is absent from the dict); seven labels
SurfaceLabels == 7

extract_surface_area_map(t) ==
    LET sec  == section_text(t, K.SurfaceAreaReport,
                             <<K.PoreVolumeReport, K.PoreSizeReport, K.SurfaceAndPoreReport>>)
        ms   == NumUnitMatches(sec, 1, U.m2g)
        vals == [j \in 1..Len(ms) |-> RemoveCommas(SubSeq(sec, ms[j].a, ms[j].g - 1))]
    IN  SubSeq(vals, 1, IF Len(vals) < SurfaceLabels THEN Len(vals) ELSE SurfaceLabels)

\* sa_map.get(label number idx); <<>> is None
MapGet(sa_map, idx) == IF idx <= Len(sa_map) THEN sa_map[idx] ELSE <<>>

(***************************************************************************)
(* Report texts of the line-stream backend.  A report is laid out as a     *)
(* title line, the start anchor line, and the rows of the distribution     *)
(* table one cell per line: range, average diameter, differential volume,  *)
(* integral volume and the optional adsorption cell.  A cell of a row is   *)
(* "ok", or malformed: "junk" (not a number), "blank" (a line of spaces),  *)
(* "missing" (no line) or "range" (a range-like token).                    *)
(***************************************************************************)
FieldKinds == {"ok", "junk", "blank", "missing", "range"}

TrailKinds == {"none", "num", "junk"}

WellFormed(row) == row.avg = "ok" /\ row.diff = "ok" /\ row.int = "ok"

GoodRows == {[avg |-> "ok", diff |-> "ok", int |-> "ok", trail |-> t] : t \in TrailKinds}

BadRows ==
    {r \in [avg : FieldKinds, diff : FieldKinds, int : FieldKinds, trail : {"none", "num"}] :
        Cardinality({f \in {"avg", "diff", "int"} : r[f] # "ok"}) = 1}

RowLayouts ==
    {rs \in UNION {[1..n -> GoodRows \cup BadRows] : n \in 0..MaxRows} :
        Cardinality({k \in 1..Len(rs) : ~WellFormed(rs[k])}) <= MaxMalformed}

\* the cells of row k: average k.0, integral volume 0.1, 0.5, 0.9, then 1.k
RangeTok(k) == <<Digits[k + 1], "-", Digits[k + 2]>>

AvgTok(k) == <<Digits[k + 1], ".", "0">>

IntTok(k) ==
    IF k = 1 THEN <<"0", ".", "1">>
    ELSE IF k = 2 THEN <<"0", ".", "5">>
    ELSE IF k = 3 THEN <<"0", ".", "9">>
    ELSE <<"1", ".", Digits[k + 1]>>

DiffTok == <<"0", ".", "2">>

AdsTok == <<"7", ".", "7">>

JunkTok == <<"n", "/", "a">>

BlankTok == <<" ">>

RangeLikeTok == <<"8", "endash", "9">>

FieldLines(kind, good) ==
    IF kind = "ok" THEN <<good>>
    ELSE IF kind = "junk" THEN <<JunkTok>>
    ELSE IF kind = "blank" THEN <<BlankTok>>
    ELSE IF kind = "range" THEN <<RangeLikeTok>>
    ELSE <<>>

RowLines(k, row) ==
    <<RangeTok(k)>> \o FieldLines(row.avg, AvgTok(k)) \o FieldLines(row.diff, DiffTok)
        \o FieldLines(row.int, IntTok(k))
        \o (IF row.trail = "num" THEN <<AdsTok>>
            ELSE IF row.trail = "junk" THEN <<JunkTok>> ELSE <<>>)

\* the rows of the table from row k on, with the end anchor line after row
\* endAfter (no end anchor when endAfter < 0)
RECURSIVE TableLines(_, _, _)
TableLines(rows, k, endAfter) ==
    (IF endAfter = k - 1 THEN <<C.Adsorption \o C.DetailedTestData>> ELSE <<>>)
      \o (IF k > Len(rows) THEN <<>>
          ELSE RowLines(k, rows[k]) \o TableLines(rows, k + 1, endAfter))

\* the text of a list of lines: every line ends with \n, and in a spaced
\* layout is followed by an empty line
RECURSIVE JoinLines(_, _)
JoinLines(ls, spaced) ==
    IF ls = <<>> THEN <<>>
    ELSE Head(ls) \o (IF spaced THEN <<"\n", "\n">> ELSE <<"\n">>) \o JoinLines(Tail(ls), spaced)

TitleLine == <<"bao4", "gao4">>

BlockLines(rep) ==
    (IF rep.start THEN <<C.NLDFT \o C.DetailedData>> ELSE <<>>)
        \o TableLines(rep.rows, 1, rep.endAfter)

\* with a start anchor: every layout; without one: the well-formed tables
Reports ==
    {r \in [start : BOOLEAN, rows : RowLayouts, spaced : BOOLEAN, endAfter : -1..MaxRows] :
        /\ r.endAfter <= Len(r.rows)
        /\ ~r.start => (r.endAfter < 0 /\ \A k \in 1..Len(r.rows) : WellFormed(r.rows[k]))}

RowSample(k) == NldftData(ParseFloat(AvgTok(k)), ParseFloat(IntTok(k)))

(***************************************************************************)
(* Specification of parse_nldft_pairs, one loop iteration per step.        *)
(***************************************************************************)
InitLines ==
    /\ pc = "parse"
    /\ report \in Reports
    /\ text = JoinLines(<<TitleLine>> \o BlockLines(report), report.spaced)
    /\ lines = <<>>
    /\ i = 0
    /\ data = <<>>
    /\ target = RZero
    /\ ret = RZero
    /\ pdf = <<>>
    /\ result = <<>>

\* start_pattern.search(text) finds nothing: return []
NoStartAnchor ==
    /\ pc = "parse"
    /\ ~NldftBlockLines(text).found
    /\ pc' = "done"
    /\ UNCHANGED <<report, text, lines, i, data, target, ret, pdf, result>>

LocateBlock ==
    /\ pc = "parse"
    /\ LET blk == NldftBlockLines(text) IN
          /\ blk.found
          /\ lines' = blk.lines
    /\ i' = 0
    /\ data' = <<>>
    /\ pc' = "scan"
    /\ UNCHANGED <<report, text, target, ret, pdf, result>>

\* lines[i] is no range token: i += 1
ScanSkip ==
    /\ pc = "scan"
    /\ i < Len(lines)
    /\ \E it \in {ScanIter(lines, i)} :
          /\ it.kind = "skip"
          /\ i' = it.i
    /\ UNCHANGED <<pc, report, text, lines, data, target, ret, pdf, result>>

\* a field after the range token is no decimal: i += 1; continue
ScanRetry ==
    /\ pc = "scan"
    /\ i < Len(lines)
    /\ \E it \in {ScanIter(lines, i)} :
          /\ it.kind = "retry"
          /\ i' = it.i
    /\ UNCHANGED <<pc, report, text, lines, data, target, ret, pdf, result>>

\* the lines end inside a row: break
ScanBreak ==
    /\ pc = "scan"
    /\ i < Len(lines)
    /\ ScanIter(lines, i).kind = "break"
    /\ pc' = "sort"
    /\ UNCHANGED <<report, text, lines, i, data, target, ret, pdf, result>>

\* range, average and integral validate: append the sample, move past the row
ScanEmit ==
    /\ pc = "scan"
    /\ i < Len(lines)
    /\ \E it \in {ScanIter(lines, i)} :
          /\ it.kind = "emit"
          /\ data' = Append(data, it.row)
          /\ i' = it.i
    /\ UNCHANGED <<pc, report, text, lines, target, ret, pdf, result>>

\* while i < len(lines) is false
ScanEnd ==
    /\ pc = "scan"
    /\ i >= Len(lines)
    /\ pc' = "sort"
    /\ UNCHANGED <<report, text, lines, i, data, target, ret, pdf, result>>

\* data.sort(key=...); return data
SortAndReturn ==
    /\ pc = "sort"
    /\ data' = SortByVolume(data)
    /\ pc' = "done"
    /\ UNCHANGED <<report, text, lines, i, target, ret, pdf, result>>

NextLines ==
    \/ NoStartAnchor
    \/ LocateBlock
    \/ ScanSkip
    \/ ScanRetry
    \/ ScanBreak
    \/ ScanEmit
    \/ ScanEnd
    \/ SortAndReturn

SpecLines == InitLines /\ [][NextLines]_vars

\* the samples of the well-formed rows of the scanned block, in row order
RECURSIVE WellFormedSamples(_, _, _)
WellFormedSamples(rep, k, last) ==
    IF k > last THEN <<>>
    ELSE (IF WellFormed(rep.rows[k]) THEN <<RowSample(k)>> ELSE <<>>)
            \o WellFormedSamples(rep, k + 1, last)

ScannedRows(rep) == IF rep.endAfter < 0 THEN Len(rep.rows) ELSE rep.endAfter

\* C9: a well-formed row, one malformed row and a second well-formed row
\* yield exactly the two well-formed samples.
C9_TolerantReconstruction ==
    (/\ pc = "done"
     /\ report.start
     /\ Len(report.rows) = 3
     /\ ScannedRows(report) = 3
     /\ WellFormed(report.rows[1])
     /\ ~WellFormed(report.rows[2])
     /\ WellFormed(report.rows[3]))
        => data = <<RowSample(1), RowSample(3)>>

\* C10: every well-formed row of the scanned block yields exactly one sample,
\* whatever its optional trailing field is: a block of N well-formed rows
\* yields the N samples of its rows.
C10_OneSamplePerRow ==
    (/\ pc = "done"
     /\ report.start
     /\ \A k \in 1..ScannedRows(report) : WellFormed(report.rows[k]))
        => data = WellFormedSamples(report, 1, ScannedRows(report))

(***************************************************************************)
(* Specification of the interpolation primitives: a series as Backend A    *)
(* returns it (any accepted rows, stably sorted by integral volume) and a  *)
(* target, then one call.                                                  *)
(***************************************************************************)
SampleDiameters == {<<1, 1>>, <<2, 1>>, <<3, 1>>}

SampleVolumes == {<<1, 10>>, <<1, 2>>, <<9, 10>>}

Samples == {NldftData(d, v) : d \in SampleDiameters, v \in SampleVolumes}

Targets == SampleDiameters \cup SampleVolumes
             \cup {<<0, 1>>, <<3, 10>>, <<3, 2>>, <<4, 1>>}

RawSeries == UNION {[1..n -> Samples] : n \in 1..MaxSeries}

InitInterp ==
    /\ pc = "ready"
    /\ report = <<>>
    /\ text = <<>>
    /\ lines = <<>>
    /\ i = 0
    /\ \E raw \in RawSeries : data = SortByVolume(raw)
    /\ target \in Targets
    /\ ret = RZero
    /\ pdf = <<>>
    /\ result = <<>>

CallInterpolateDiameter ==
    /\ pc = "ready"
    /\ ret' = interpolate_diameter(target, data)
    /\ pc' = "diameter"
    /\ UNCHANGED <<report, text, lines, i, data, target, pdf, result>>

CallInterpolateVolume ==
    /\ pc = "ready"
    /\ ret' = interpolate_volume(target, data)
    /\ pc' = "volume"
    /\ UNCHANGED <<report, text, lines, i, data, target, pdf, result>>

NextInterp == CallInterpolateDiameter \/ CallInterpolateVolume

SpecInterp == InitInterp /\ [][NextInterp]_vars

SortedByVolume(rows) ==
    \A j \in 1..(Len(rows) - 1) :
        RLe(rows[j].pore_integral_volume, rows[j + 1].pore_integral_volume)

\* C5 as claimed: interpolate_diameter at the integral volume of any sample of
\* a volume-sorted series returns that sample's average diameter.
C5_IdentityEverySample ==
    (pc = "diameter" /\ SortedByVolume(data)) =>
        \A j \in 1..Len(data) :
            data[j].pore_integral_volume = target =>
                ret = data[j].average_pore_diameter

\* C5 amended: interpolate_diameter at the integral volume of a sample returns
\* the average diameter of the first sample of the series whose integral volume
\* is within the isclose tolerance of it (the sample itself when no earlier
\* sample has a volume that close, in particular when volumes are distinct).
C5_IdentityFirstOfVolume ==
    (pc = "diameter" /\ SortedByVolume(data)) =>
        \A j \in 1..Len(data) :
            (/\ data[j].pore_integral_volume = target
             /\ \A q \in 1..(j - 1) : ~IsClose(data[q].pore_integral_volume, target))
                => ret = data[j].average_pore_diameter

C5_Witness ==
    /\ pc = "diameter"
    /\ Len(data) = 3
    /\ data[2].pore_integral_volume = target
    /\ data[1].pore_integral_volume # target
    /\ ret = data[2].average_pore_diameter
    /\ data[2].average_pore_diameter # data[1].average_pore_diameter
    /\ data[2].average_pore_diameter # data[3].average_pore_diameter

PairwiseDistinctDiameters(rows) ==
    \A j, q \in 1..Len(rows) :
        j # q => rows[j].average_pore_diameter # rows[q].average_pore_diameter

\* C6: interpolate_volume at the average diameter of any sample of the series,
\* as the reconstructor returns it, returns that sample's integral volume
\* (stated for series whose diameters are pairwise distinct, where the sample
\* is the only one with that diameter).
C6_VolumeIdentity ==
    (pc = "volume" /\ PairwiseDistinctDiameters(data)) =>
        \A j \in 1..Len(data) :
            data[j].average_pore_diameter = target =>
                ret = data[j].pore_integral_volume

\* C7: below the smallest integral volume interpolate_diameter returns the
\* first sample's diameter, above the largest one the last sample's diameter.
C7_BoundaryClamp ==
    (pc = "diameter" /\ SortedByVolume(data)) =>
        /\ RLt(target, data[1].pore_integral_volume)
              => ret = data[1].average_pore_diameter
        /\ RLt(data[Len(data)].pore_integral_volume, target)
              => ret = data[Len(data)].average_pore_diameter

C7_Witness ==
    /\ pc = "diameter"
    /\ Len(data) = 3
    /\ RLt(data[3].pore_integral_volume, target)
    /\ RLt(data[1].pore_integral_volume, data[3].pore_integral_volume)
    /\ ret = data[3].average_pore_diameter
    /\ data[1].average_pore_diameter # data[3].average_pore_diameter
    /\ data[2].average_pore_diameter # data[3].average_pore_diameter

(***************************************************************************)
(* ProcessResult and process_pdf (pdf_processor.py).                       *)
(***************************************************************************)
\* clean_text: NFKC and the two replace() lines, on the characters a raw text
\* is made of: \r\n and \r become \n, the no-break and the ideographic space
\* become a space
clean_text(raw) ==
    LET marked == [p \in 1..Len(raw) |->
                      IF raw[p] = "\n" /\ p > 1 /\ raw[p - 1] = "\r" THEN "" ELSE raw[p]]
        Kept(c) == c # ""
        Clean(c) == IF c = "\r" THEN "\n"
                    ELSE IF c \in {"nbsp", "idsp"} THEN " " ELSE c
        kept == SelectSeq(marked, Kept)
    IN  [p \in 1..Len(kept) |-> Clean(kept[p])]

\* float(s) does not raise ValueError
FloatOk(s) ==
    LET p0 == SkipSign(s, 1)
        p1 == SkipDigits(s, p0)
        p2 == IF p1 <= Len(s) /\ s[p1] = "." THEN SkipDigits(s, p1 + 1) ELSE p1
    IN  /\ (p1 > p0 \/ p2 > p1 + 1)
        /\ ExponentEnd(s, p2) = Len(s) + 1

\* x > 1e-9 and x > 1e-12 for a rational x
Above1e9(x) == x[1] > (x[2] \div 1000) \div 1000000

Above1e12(x) == x[1] > (x[2] \div 1000000) \div 1000000

\* a variant that takes every pore volume A as large enough to divide by
AboveTiny_any(x, tiny) == TRUE

\* x > 1e-9 (Backend A) or x > 1e-12 (Backend B)
AboveTiny(x, tiny) == IF tiny = 9 THEN Above1e9(x) ELSE Above1e12(x)

\* the error messages
M ==
    [NoText |->
        "no text could be extracted from the PDF",
     NoNldft |->
        "no NLDFT detailed data extracted",
     NoTotalPoreVolume |->
        "total pore volume not found, nothing can be computed",
     TotalPoreVolumeParse |->
        "total pore volume failed to parse",
     StructuredFailed |->
        "structured parsing failed",
     NoTables |->
        "no table structure detected"]

NoScalars ==
    [sp_bet |-> <<>>, mp_bet |-> <<>>, total_pore_vol |-> <<>>, avg_pore_d |-> <<>>,
     most_probable |-> <<>>]

NoMetrics ==
    [d10_int |-> RZero, d10 |-> RZero, d90_int |-> RZero, d90 |-> RZero,
     d90_d10_ratio |-> RZero, pore_volume_A |-> RZero,
     d0_5 |-> RZero, volume_0_5D |-> RZero, less_than_0_5D |-> RZero,
     d1_5 |-> RZero, volume_1_5D |-> RZero, greater_than_1_5D |-> RZero]

\* ProcessResult(...): the dataclass with its defaults
ProcessResult(success, error_message, scalars, nldft_data, metrics) ==
    [success |-> success, error_message |-> error_message,
     sp_bet |-> scalars.sp_bet, mp_bet |-> scalars.mp_bet,
     total_pore_vol |-> scalars.total_pore_vol, avg_pore_d |-> scalars.avg_pore_d,
     most_probable |-> scalars.most_probable, nldft_data |-> nldft_data,
     d10_int |-> metrics.d10_int, d10 |-> metrics.d10,
     d90_int |-> metrics.d90_int, d90 |-> metrics.d90,
     d90_d10_ratio |-> metrics.d90_d10_ratio, pore_volume_A |-> metrics.pore_volume_A,
     d0_5 |-> metrics.d0_5, volume_0_5D |-> metrics.volume_0_5D,
     less_than_0_5D |-> metrics.less_than_0_5D,
     d1_5 |-> metrics.d1_5, volume_1_5D |-> metrics.volume_1_5D,
     greater_than_1_5D |-> metrics.greater_than_1_5D]

\* ProcessResult(success=False, error_message=...)
Failure(error_message) == ProcessResult(FALSE, error_message, NoScalars, <<>>, NoMetrics)

\* the integral volume of the first sample instead of the maximum
MaxVolume_first(rows, idx, best) == best

\* max(row.pore_integral_volume for row in nldft)
RECURSIVE MaxVolume(_, _, _)
MaxVolume(rows, idx, best) ==
    IF idx > Len(rows) THEN best
    ELSE MaxVolume(rows, idx + 1,
                   IF RLt(best, rows[idx].pore_integral_volume)
                   THEN rows[idx].pore_integral_volume ELSE best)

Half == <<1, 2>>

OneAndHalf == <<3, 2>>

Hundred == <<100, 1>>

\* lines 347-377: the derived metrics, for a non-empty series
DerivedMetrics(total, most_probable, nldft, tiny) ==
    LET Metrics(d10_int, d90_int, d10, d90, pore_volume_A, has_mp, d0_5, d1_5,
                volume_0_5D, volume_1_5D) ==
            [d10_int |-> d10_int, d10 |-> d10, d90_int |-> d90_int, d90 |-> d90,
             d90_d10_ratio |-> IF d10 # RZero THEN RDiv(d90, d10) ELSE RZero,
             pore_volume_A |-> pore_volume_A,
             d0_5 |-> IF has_mp THEN d0_5 ELSE RZero,
             volume_0_5D |-> IF has_mp THEN volume_0_5D ELSE RZero,
             less_than_0_5D |->
                 IF has_mp /\ AboveTiny(pore_volume_A, tiny)
                 THEN RMul(RDiv(volume_0_5D, pore_volume_A), Hundred) ELSE RZero,
             d1_5 |-> IF has_mp THEN d1_5 ELSE RZero,
             volume_1_5D |-> IF has_mp THEN volume_1_5D ELSE RZero,
             greater_than_1_5D |->
                 IF has_mp /\ AboveTiny(pore_volume_A, tiny)
                 THEN RMul(RDiv(RSub(pore_volume_A, volume_1_5D), pore_volume_A), Hundred)
                 ELSE RZero]
        Fractions(d10_int, d90_int, has_mp, d0_5, d1_5) ==
            Metrics(d10_int, d90_int,
                    interpolate_diameter(d10_int, nldft), interpolate_diameter(d90_int, nldft),
                    MaxVolume(nldft, 2, nldft[1].pore_integral_volume), has_mp, d0_5, d1_5,
                    interpolate_volume(d0_5, nldft), interpolate_volume(d1_5, nldft))
        Targets0(has_mp, D) ==
            Fractions(RMul(total, <<1, 10>>), RMul(total, <<9, 10>>), has_mp,
                      RMul(D, Half), RMul(D, OneAndHalf))
        WithMostProbable(has_mp) ==
            Targets0(has_mp, IF has_mp THEN ParseFloat(most_probable) ELSE RZero)
    IN  WithMostProbable(most_probable # <<>> /\ FloatOk(most_probable))

\* lines 324-330: the arguments of the five extract_value_near calls
NearLookups ==
    <<[keyword |-> K.SinglePointBET, unit |-> U.m2g, window |-> 1000, reference |-> <<>>],
      [keyword |-> K.MultiPointBET, unit |-> U.m2g, window |-> 1000, reference |-> <<>>],
      [keyword |-> K.TotalPoreVolume, unit |-> U.cm3g, window |-> 1000, reference |-> <<>>],
      [keyword |-> K.AveragePoreDiameter, unit |-> U.nm, window |-> 1000, reference |-> <<>>],
      [keyword |-> K.MostProbable, unit |-> U.nm, window |-> 200,
       reference |-> C.NLDFT \o C.DetailedData]>>

\* lines 321-330: the scalar fields
Scalars(t) ==
    LET Fields(sa_map, near) ==
            [sp_bet |-> IF MapGet(sa_map, 1) # <<>> THEN MapGet(sa_map, 1) ELSE near[1],
             mp_bet |-> IF MapGet(sa_map, 2) # <<>> THEN MapGet(sa_map, 2) ELSE near[2],
             total_pore_vol |-> near[3],
             avg_pore_d |-> near[4],
             most_probable |-> near[5]]
    IN  Fields(extract_surface_area_map(t),
               [k \in 1..Len(NearLookups) |->
                   extract_value_near(t, NearLookups[k].keyword, NearLookups[k].unit,
                                      NearLookups[k].window, NearLookups[k].reference)])

\* the checks with the most-probable diameter treated as required
process_text_needs_most_probable(t, scalars, nldft) ==
    IF Strip(t) = <<>> THEN Failure(M.NoText)
    ELSE IF nldft = <<>> THEN Failure(M.NoNldft)
    ELSE IF scalars.total_pore_vol = <<>> \/ scalars.most_probable = <<>>
    THEN Failure(M.NoTotalPoreVolume)
    ELSE ProcessResult(TRUE, "", scalars, nldft,
             DerivedMetrics(ParseFloat(scalars.total_pore_vol),
                            scalars.most_probable, nldft, 9))

\* the checks with the series and pore volume A kept in the failure result
process_text_partial_on_failure(t, scalars, nldft) ==
    IF Strip(t) = <<>> THEN Failure(M.NoText)
    ELSE IF nldft = <<>> THEN Failure(M.NoNldft)
    ELSE IF scalars.total_pore_vol = <<>>
    THEN ProcessResult(FALSE, M.NoTotalPoreVolume, scalars, nldft,
             [NoMetrics EXCEPT !.pore_volume_A =
                  MaxVolume(nldft, 2, nldft[1].pore_integral_volume)])
    ELSE ProcessResult(TRUE, "", scalars, nldft,
             DerivedMetrics(ParseFloat(scalars.total_pore_vol),
                            scalars.most_probable, nldft, 9))

\* the checks with a missing most probable diameter taken as 1.0
process_text_default_most_probable(t, scalars, nldft) ==
    IF Strip(t) = <<>> THEN Failure(M.NoText)
    ELSE IF nldft = <<>> THEN Failure(M.NoNldft)
    ELSE IF scalars.total_pore_vol = <<>> THEN Failure(M.NoTotalPoreVolume)
    ELSE IF ~FloatOk(scalars.total_pore_vol) THEN Failure(M.TotalPoreVolumeParse)
    ELSE ProcessResult(TRUE, "", scalars, nldft,
             DerivedMetrics(ParseFloat(scalars.total_pore_vol),
                            IF scalars.most_probable = <<>> THEN <<"1", ".", "0">>
                            ELSE scalars.most_probable, nldft, 9))

\* lines 317-402: the checks of process_pdf and its result, from the cleaned
\* text, the scalars and the series extracted from it
process_text(t, scalars, nldft) ==
    IF Strip(t) = <<>> THEN Failure(M.NoText)
    ELSE IF nldft = <<>> THEN Failure(M.NoNldft)
    ELSE IF scalars.total_pore_vol = <<>> THEN Failure(M.NoTotalPoreVolume)
    ELSE IF ~FloatOk(scalars.total_pore_vol) THEN Failure(M.TotalPoreVolumeParse)
    ELSE ProcessResult(TRUE, "", scalars, nldft,
             DerivedMetrics(ParseFloat(scalars.total_pore_vol),
                            scalars.most_probable, nldft, 9))

\* lines 315-332 on the cleaned text
extract_and_process(t) == process_text(t, Scalars(t), parse_nldft_pairs(t))

\* process_pdf(pdf_path), on the text pdfminer extracts from the file (the
\* empty text when extraction fails).  Nothing in the body raises, so the
\* outer except clause returns nothing here.
process_pdf(raw) == extract_and_process(clean_text(raw))

(***************************************************************************)
(* Reports given to process_pdf: scalar lines followed by the NLDFT block. *)
(***************************************************************************)
V_sp_bet == <<"1", "2", "3", ".", "4", "5">>

V_mp_bet == <<"1", "2", "5", ".", "6", "7">>

V_total_pore_vol == <<"1", ".", "0", "0", "0">>

V_avg_pore_d == <<"4", ".", "5">>

V_most_probable == <<"2", ".", "0">>

\* "keyword: value (unit)"
ScalarLine(keyword, value, unit) ==
    keyword \o <<":", " ">> \o value \o <<" ", "(">> \o unit \o <<")">>

ScalarLines(rep) ==
    (IF rep.surface = "section" THEN <<K.SurfaceAreaReport>> ELSE <<>>)
    \o (IF rep.surface # "none"
        THEN <<ScalarLine(K.SinglePointBET, V_sp_bet, U.m2g),
               ScalarLine(K.MultiPointBET, V_mp_bet, U.m2g)>>
        ELSE <<>>)
    \o (IF rep.tpv = "ok"
        THEN <<K.PoreVolumeReport, ScalarLine(K.TotalPoreVolume, V_total_pore_vol, U.cm3g)>>
        ELSE IF rep.tpv = "nounit"
        THEN <<K.PoreVolumeReport, K.TotalPoreVolume \o <<":", " ">> \o V_total_pore_vol>>
        ELSE <<>>)
    \o (IF rep.avgd THEN <<ScalarLine(K.AveragePoreDiameter, V_avg_pore_d, U.nm)>> ELSE <<>>)
    \o (IF rep.mp THEN <<ScalarLine(K.MostProbable, V_most_probable, U.nm)>> ELSE <<>>)

\* the text of a list of lines with \r\n line ends and a no-break space
\* after every line, as some extractions give it
RECURSIVE JoinLinesCrLf(_)
JoinLinesCrLf(ls) ==
    IF ls = <<>> THEN <<>>
    ELSE Head(ls) \o <<"nbsp", "\r", "\n">> \o JoinLinesCrLf(Tail(ls))

RawText(rep) ==
    IF rep.blank = "empty" THEN <<>>
    ELSE IF rep.blank = "spaces" THEN <<" ", "\r", "\n", "idsp">>
    ELSE IF rep.eol = "crlf"
         THEN JoinLinesCrLf(<<TitleLine>> \o ScalarLines(rep) \o BlockLines(rep))
         ELSE JoinLines(<<TitleLine>> \o ScalarLines(rep) \o BlockLines(rep), rep.spaced)

PlainRows == {r \in GoodRows : r.trail # "junk"}

TextReports ==
    [backend : {"A"}, blank : {"no"}, surface : {"none", "section", "lines"},
     tpv : {"none", "ok", "nounit"}, avgd : BOOLEAN, mp : BOOLEAN, start : BOOLEAN,
     rows : UNION {[1..n -> PlainRows] : n \in 0..MaxRows},
     spaced : {FALSE}, eol : {"lf"}, endAfter : {-1}]
    \cup [backend : {"A"}, blank : {"no"}, surface : {"none", "section", "lines"},
          tpv : {"none", "ok", "nounit"}, avgd : {TRUE}, mp : {TRUE}, start : BOOLEAN,
          rows : UNION {[1..n -> PlainRows] : n \in 0..MaxRows},
          spaced : {FALSE}, eol : {"crlf"}, endAfter : {-1}]

BlankTextReports ==
    [backend : {"A"}, blank : {"empty", "spaces"}, surface : {"none"},
     tpv : {"none"}, avgd : {FALSE}, mp : {FALSE}, start : {FALSE},
     rows : {<<>>}, spaced : {FALSE}, eol : {"lf"}, endAfter : {-1}]

(***************************************************************************)
(* The table-grid backend (pdf_structured_extractor).  A cell is a         *)
(* sequence of characters, the empty sequence for an empty or missing      *)
(* cell; a row is a sequence of cells, a table [page_index, table_index,   *)
(* rows].                                                                  *)
(***************************************************************************)
Uppers ==
    <<"A", "B", "C", "D", "E", "F", "G", "H", "I", "J", "K", "L", "M",
      "N", "O", "P", "Q", "R", "S", "T", "U", "V", "W", "X", "Y", "Z">>

Lowers ==
    <<"a", "b", "c", "d", "e", "f", "g", "h", "i", "j", "k", "l", "m",
      "n", "o", "p", "q", "r", "s", "t", "u", "v", "w", "x", "y", "z">>

\* str.lower()
Lower(s) ==
    LET LowerChar(c) == IF \E k \in 1..Len(Uppers) : Uppers[k] = c
                        THEN Lowers[CHOOSE k \in 1..Len(Uppers) : Uppers[k] = c]
                        ELSE c
    IN  [p \in 1..Len(s) |-> LowerChar(s[p])]

\* kw in s
Contains(kw, s) == Find(kw, s, 0) # -1

\* s.endswith(kw)
EndsWith(kw, s) == Len(kw) <= Len(s) /\ StartsWith(kw, s, Len(s) - Len(kw) + 1)

\* SPACE_RE.sub("", s)
RemoveSpaces(s) ==
    LET NotSpace(c) == ~IsSpace(c) IN SelectSeq(s, NotSpace)

\* " ".join(parts)
RECURSIVE JoinSpace(_)
JoinSpace(parts) ==
    IF parts = <<>> THEN <<>>
    ELSE IF Len(parts) = 1 THEN parts[1]
    ELSE parts[1] \o <<" ">> \o JoinSpace(Tail(parts))

\* " ".join(" ".join(row) for row in rows)
JoinRows(rows) == JoinSpace([k \in 1..Len(rows) |-> JoinSpace(rows[k])])

\* .replace("\r\n", "\n").replace("\r", "\n")
UnifyNewlines(s) ==
    LET marked == [p \in 1..Len(s) |->
                      IF s[p] = "\n" /\ p > 1 /\ s[p - 1] = "\r" THEN "" ELSE s[p]]
        Kept(c) == c # ""
        kept == SelectSeq(marked, Kept)
    IN  [p \in 1..Len(kept) |-> IF kept[p] = "\r" THEN "\n" ELSE kept[p]]

\* normalize_text: NFKC (of the characters used here, it turns the no-break
\* and the ideographic space into a space), NUL removed, stripped
normalize_text(value) ==
    LET NotNul(c) == c # "nul"
        nfkc == [p \in 1..Len(value) |->
                    IF value[p] \in {"nbsp", "idsp"} THEN " " ELSE value[p]]
    IN  Strip(SelectSeq(nfkc, NotNul))

normalize_cell(cell) == UnifyNewlines(normalize_text(cell))

\* label_variants_lower: the stripped non-empty lines of the cell, lowered
label_variants_lower(cell) ==
    LET NonEmpty(line) == line # <<>>
        split == SplitLines(normalize_cell(cell))
        lines0 == SelectSeq([k \in 1..Len(split) |-> Strip(split[k])], NonEmpty)
    IN  IF split = <<>> THEN <<>>
        ELSE [k \in 1..Len(lines0) |-> Lower(lines0[k])]

\* label_match_score: 3 as soon as a variant equals a target, else the best
\* of 2 (the variant ends with a target) and 1 (it contains one)
label_match_score(cell, targets_lower) ==
    LET variants == label_variants_lower(cell)
        Score(v, tgt) == IF EndsWith(tgt, v) THEN 2
                            ELSE IF Contains(tgt, v) THEN 1 ELSE 0
        scores == {Score(variants[k], targets_lower[j]) :
                      k \in 1..Len(variants), j \in 1..Len(targets_lower)}
    IN  IF \E k \in 1..Len(variants), j \in 1..Len(targets_lower) :
               variants[k] = targets_lower[j]
        THEN 3
        ELSE IF 2 \in scores THEN 2 ELSE IF 1 \in scores THEN 1 ELSE 0

label_matches(cell, targets_lower) ==
    LET variants == label_variants_lower(cell) IN
    \E k \in 1..Len(variants), j \in 1..Len(targets_lower) :
        Contains(targets_lower[j], variants[k])

\* extract_number: the first NUM_RE match of the cell without its commas;
\* <<>> is None
extract_number(value) ==
    LET Number(s) ==
            LET starts == {q \in 1..Len(s) : NumEnd(s, q) # 0} IN
            IF starts = {} THEN <<>>
            ELSE SubSeq(s, MinOf(starts), NumEnd(s, MinOf(starts)) - 1)
    IN  Number(RemoveCommas(normalize_cell(value)))

\* the keywords of the label tables, the prefilter and the column
\* detection, lowered
L ==
    [single_point_surface_area |->
        <<"s", "i", "n", "g", "l", "e", " ", "p", "o", "i", "n", "t", " ", "s", "u", "r", "f", "a",
          "c", "e", " ", "a", "r", "e", "a">>,
     bet_surface_area |->
        <<"b", "e", "t", " ", "s", "u", "r", "f", "a", "c", "e", " ", "a", "r", "e", "a">>,
     single_point_adsorption_total_pore_volume |->
        <<"s", "i", "n", "g", "l", "e", " ", "p", "o", "i", "n", "t", " ", "a", "d", "s", "o", "r",
          "p", "t", "i", "o", "n", " ", "t", "o", "t", "a", "l", " ", "p", "o", "r", "e", " ", "v",
          "o", "l", "u", "m", "e">>,
     total_adsorption_average_pore_width |->
        <<"t", "o", "t", "a", "l", " ", "a", "d", "s", "o", "r", "p", "t", "i", "o", "n", " ", "a",
          "v", "e", "r", "a", "g", "e", " ", "p", "o", "r", "e", " ", "w", "i", "d", "t", "h">>,
     modal_pore_width |->
        <<"m", "o", "d", "a", "l", " ", "p", "o", "r", "e", " ", "w", "i", "d", "t", "h">>,
     mode_pore_width |->
        <<"m", "o", "d", "e", " ", "p", "o", "r", "e", " ", "w", "i", "d", "t", "h">>,
     surface_area |->
        <<"s", "u", "r", "f", "a", "c", "e", " ", "a", "r", "e", "a">>,
     pore_volume |->
        <<"p", "o", "r", "e", " ", "v", "o", "l", "u", "m", "e">>,
     pore_size |->
        <<"p", "o", "r", "e", " ", "s", "i", "z", "e">>,
     bet |->
        <<"b", "e", "t">>,
     nldft |->
        <<"n", "l", "d", "f", "t">>,
     p_p0 |->
        <<"p", "/", "p", "0">>,
     average_pore_diameter |->
        <<"a", "v", "e", "r", "a", "g", "e", " ", "p", "o", "r", "e", " ", "d", "i", "a", "m", "e",
          "t", "e", "r">>,
     average_pore_width |->
        <<"a", "v", "e", "r", "a", "g", "e", " ", "p", "o", "r", "e", " ", "w", "i", "d", "t", "h">>,
     avg_pore_diameter |->
        <<"a", "v", "g", " ", "p", "o", "r", "e", " ", "d", "i", "a", "m", "e", "t", "e", "r">>,
     pore_integral_volume |->
        <<"p", "o", "r", "e", " ", "i", "n", "t", "e", "g", "r", "a", "l", " ", "v", "o", "l", "u",
          "m", "e">>,
     integral_pore_volume |->
        <<"i", "n", "t", "e", "g", "r", "a", "l", " ", "p", "o", "r", "e", " ", "v", "o", "l", "u",
          "m", "e">>,
     zh_average_pore_diameter |->
        <<"ping2", "jun1", "kong3", "zhi2", "jing4">>,
     zh_average_pore_size |->
        <<"ping2", "jun1", "kong3", "jing4">>,
     zh_pore_integral_volume |->
        <<"kong3", "ji1", "fen1", "ti3", "ji1">>]

\* PREFILTER_KEYWORDS_LOWER
PREFILTER_KEYWORDS_LOWER ==
    {L.surface_area, L.pore_volume, L.pore_size, L.bet, L.nldft, L.p_p0,
     Lower(K.SinglePointBET), L.single_point_surface_area,
     Lower(K.MultiPointBET), L.bet_surface_area,
     K.TotalPoreVolume, L.single_point_adsorption_total_pore_volume,
     K.AveragePoreDiameter, L.total_adsorption_average_pore_width,
     K.MostProbable, L.modal_pore_width, L.mode_pore_width}

_page_has_keywords(t) ==
    /\ t # <<>>
    /\ \/ \E keyword \in PREFILTER_KEYWORDS_LOWER : Contains(keyword, Lower(t))
       \/ \E keyword \in PREFILTER_KEYWORDS_LOWER :
              Contains(RemoveSpaces(keyword), RemoveSpaces(Lower(t)))

ExtractedTable(page_index, table_index, rows) ==
    [page_index |-> page_index, table_index |-> table_index, rows |-> rows]

\* _extract_tables_from_page: the tables pdfplumber finds on the page, rows
\* without any non-empty cell dropped, cells normalised, tables left without
\* rows dropped (table_index stays the index on the page)
_extract_tables_from_page(page, page_index) ==
    LET AnyCell(row) == \E k \in 1..Len(row) : row[k] # <<>>
        Normalized(grid) ==
            LET kept == SelectSeq(grid, AnyCell) IN
            [r \in 1..Len(kept) |-> [k \in 1..Len(kept[r]) |-> normalize_cell(kept[r][k])]]
        HasRows(table) == table.rows # <<>>
    IN  SelectSeq([k \in 1..Len(page.tables) |->
                      ExtractedTable(page_index, k - 1, Normalized(page.tables[k]))],
                  HasRows)

RECURSIVE PageTablesFrom(_, _, _)
PageTablesFrom(pages, k, prefilter) ==
    IF k > Len(pages) THEN <<>>
    ELSE (IF ~prefilter \/ _page_has_keywords(pages[k].text)
          THEN _extract_tables_from_page(pages[k], k - 1) ELSE <<>>)
         \o PageTablesFrom(pages, k + 1, prefilter)

\* collect_tables: pdfplumber.open raises on a file it cannot read; the
\* joined page text is not modelled
collect_tables(file, prefilter, collect_text) ==
    IF ~file.readable THEN [raised |-> TRUE, tables |-> <<>>]
    ELSE [raised |-> FALSE,
          tables |-> PageTablesFrom(file.pages, 1, prefilter /\ collect_text)]

\* rows[:n]
FirstRows(rows, n) == SubSeq(rows, 1, IF Len(rows) < n THEN Len(rows) ELSE n)

\* SECTION_KEYWORDS, in the order of SECTION_LABELS
SECTION_KEYWORDS == <<L.surface_area, L.pore_volume, L.pore_size>>

\* SECTION_LABELS[section]: the metric keys of the section, in order
SectionKeys(section) ==
    IF section = 1 THEN <<"sp_bet", "mp_bet">>
    ELSE IF section = 2 THEN <<"total_pore_vol">>
    ELSE <<"avg_pore_d">>

\* the lowered label candidates of a metric key
LabelCandidates(key) ==
    IF key = "sp_bet" THEN <<Lower(K.SinglePointBET), L.single_point_surface_area>>
    ELSE IF key = "mp_bet" THEN <<Lower(K.MultiPointBET), L.bet_surface_area>>
    ELSE IF key = "total_pore_vol"
    THEN <<K.TotalPoreVolume, L.single_point_adsorption_total_pore_volume>>
    ELSE IF key = "avg_pore_d"
    THEN <<K.AveragePoreDiameter, L.total_adsorption_average_pore_width>>
    ELSE <<K.MostProbable, L.modal_pore_width, L.mode_pore_width>>

NoSummary ==
    [sp_bet |-> <<>>, mp_bet |-> <<>>, total_pore_vol |-> <<>>, avg_pore_d |-> <<>>]

\* lines 274-280: the number of the last cell of the row holding one, when
\* a cell of the row matches the label of a key not yet found
RECURSIVE SummaryRowKeys(_, _, _, _)
SummaryRowKeys(metrics, keys, k, row) ==
    LET numbered == {c \in 1..Len(row) : extract_number(row[c]) # <<>>}
        labelled == \E c \in 1..Len(row) : label_matches(row[c], LabelCandidates(keys[k]))
    IN  IF k > Len(keys) THEN metrics
        ELSE IF metrics[keys[k]] = <<>> /\ labelled /\ numbered # {}
        THEN SummaryRowKeys(
                 [metrics EXCEPT ![keys[k]] =
                      extract_number(row[CHOOSE c \in numbered : \A o \in numbered : o <= c])],
                 keys, k + 1, row)
        ELSE SummaryRowKeys(metrics, keys, k + 1, row)

\* lines 261-280: the rows of one table; current_section = 0 is None
RECURSIVE SummaryRows(_, _, _, _)
SummaryRows(metrics, rows, r, current_section) ==
    LET named == {n \in 1..Len(SECTION_KEYWORDS) :
                     Contains(SECTION_KEYWORDS[n], Lower(JoinSpace(rows[r])))}
        section == IF named # {} THEN MinOf(named) ELSE current_section
    IN  IF r > Len(rows) THEN metrics
        ELSE IF section = 0 THEN SummaryRows(metrics, rows, r + 1, section)
        ELSE SummaryRows(SummaryRowKeys(metrics, SectionKeys(section), 1, rows[r]),
                         rows, r + 1, section)

RECURSIVE SummaryTables(_, _, _)
SummaryTables(metrics, tables, k) ==
    LET joined_header == Lower(JoinRows(FirstRows(tables[k].rows, 2)))
        Continue(found) ==
            IF \A key \in {"sp_bet", "mp_bet", "total_pore_vol", "avg_pore_d"} :
                   found[key] # <<>>
            THEN found
            ELSE SummaryTables(found, tables, k + 1)
    IN  IF k > Len(tables) THEN metrics
        ELSE IF ~\E n \in 1..Len(SECTION_KEYWORDS) : Contains(SECTION_KEYWORDS[n], joined_header)
        THEN SummaryTables(metrics, tables, k + 1)
        ELSE Continue(SummaryRows(metrics, tables[k].rows, 1, 0))

\* extract_summary_metrics; a key maps to <<>> when it is not in the dict
extract_summary_metrics(tables) == SummaryTables(NoSummary, tables, 1)

\* (score, page_index, -table_index) > best_key
KeyGreater(a, b) ==
    \/ a[1] > b[1]
    \/ a[1] = b[1] /\ a[2] > b[2]
    \/ a[1] = b[1] /\ a[2] = b[2] /\ a[3] > b[3]

\* lines 294-308: the cells in table, row and column order; best is
\* [key, value]
RECURSIVE BestLabelValue(_, _, _, _, _)
BestLabelValue(tables, t, r, c, best) ==
    LET row == tables[t].rows[r]
        score == label_match_score(row[c], LabelCandidates("most_probable"))
        after == {n \in (c + 1)..Len(row) : extract_number(row[n]) # <<>>}
        key == <<score, tables[t].page_index, -tables[t].table_index>>
    IN  IF t > Len(tables) THEN best.value
        ELSE IF r > Len(tables[t].rows) THEN BestLabelValue(tables, t + 1, 1, 1, best)
        ELSE IF c > Len(row) THEN BestLabelValue(tables, t, r + 1, 1, best)
        ELSE IF score > 0 /\ after # {} /\ KeyGreater(key, best.key)
        THEN BestLabelValue(tables, t, r, c + 1,
                            [key |-> key, value |-> extract_number(row[MinOf(after)])])
        ELSE BestLabelValue(tables, t, r, c + 1, best)

\* extract_value_by_label(tables, "most_probable"); <<>> is None
extract_value_by_label(tables) ==
    BestLabelValue(tables, 1, 1, 1, [key |-> <<0, -1, -1>>, value |-> <<>>])

NLDFT_AVG_KEYWORDS_CLEAN ==
    {L.zh_average_pore_diameter, L.zh_average_pore_size, RemoveSpaces(L.average_pore_diameter),
     RemoveSpaces(L.average_pore_width), RemoveSpaces(L.avg_pore_diameter)}

NLDFT_INTEGRAL_KEYWORDS_CLEAN ==
    {L.zh_pore_integral_volume, RemoveSpaces(L.pore_integral_volume),
     RemoveSpaces(L.integral_pore_volume)}

\* a decimal with any number of fraction digits
AVG_DECIMAL_PATTERN_any_digits(s) == float_re(s)

\* AVG_DECIMAL_PATTERN.fullmatch:  [+-]?\d+\.\d{4}
AVG_DECIMAL_PATTERN(s) ==
    LET Fraction(p1) == /\ p1 > SkipSign(s, 1)
                        /\ p1 + 4 = Len(s)
                        /\ s[p1] = "."
                        /\ \A p \in (p1 + 1)..Len(s) : IsDigit(s[p])
    IN  Fraction(SkipDigits(s, SkipSign(s, 1)))

\* the next six decimal digits of rem / d, appended to acc
RECURSIVE ScaledDigits(_, _, _, _)
ScaledDigits(acc, rem, d, k) ==
    IF k = 0 THEN [scaled |-> acc, rem |-> rem]
    ELSE ScaledDigits(10 * acc + (10 * rem) \div d, (10 * rem) % d, d, k - 1)

\* round(x, 6): the nearest multiple of 1e-6 (a tie goes to the even one)
Round6(x) ==
    LET Nearest(sign, q) ==
            Rat(sign * (IF 2 * q.rem > x[2] \/ (2 * q.rem = x[2] /\ q.scaled % 2 = 1)
                        THEN q.scaled + 1 ELSE q.scaled),
                1000000)
    IN  Nearest(IF x[1] < 0 THEN -1 ELSE 1,
                ScaledDigits(Abs(x[1]) \div x[2], Abs(x[1]) % x[2], x[2], 6))

\* contains_keywords(text, keywords)
contains_keywords(t, keywords) ==
    \E keyword \in keywords : Contains(keyword, RemoveSpaces(Lower(t)))

\* is_data_row
is_data_row(row) ==
    /\ Cardinality({c \in 1..Len(row) : extract_number(row[c]) # <<>>}) >= 2
    /\ row # <<>>
    /\ extract_number(row[1]) # <<>>

\* lines 377-396: a row that yields a sample
AcceptedRow(row, avg_col, integral_col) ==
    /\ avg_col <= Len(row) /\ integral_col <= Len(row)
    /\ extract_number(row[avg_col]) # <<>>
    /\ extract_number(row[integral_col]) # <<>>
    /\ AVG_DECIMAL_PATTERN(extract_number(row[avg_col]))
    /\ ParseFloat(extract_number(row[avg_col])) # RZero

\* lines 391-396: the sample of an accepted row
SampleOfRow(row, avg_col, integral_col) ==
    NldftData(ParseFloat(extract_number(row[avg_col])),
              Round6(ParseFloat(extract_number(row[integral_col]))))

SamplesOfRows(kept, avg_col, integral_col) ==
    [k \in 1..Len(kept) |-> SampleOfRow(kept[k], avg_col, integral_col)]

\* lines 374-396; a column 0 is None
ColumnSamples(rows, data_start, avg_col, integral_col) ==
    LET Accepted(row) == AcceptedRow(row, avg_col, integral_col) IN
    IF avg_col = 0 \/ integral_col = 0 THEN <<>>
    ELSE SamplesOfRows(SelectSeq(SubSeq(rows, data_start, Len(rows)), Accepted),
                       avg_col, integral_col)

\* lines 353-360: column_headers[col]
ColumnHeader(header_rows, col) ==
    LET NonEmpty(cell) == cell # <<>> IN
    JoinSpace(SelectSeq([h \in 1..Len(header_rows) |->
                            IF col <= Len(header_rows[h])
                            THEN normalize_cell(header_rows[h][col]) ELSE <<>>],
                        NonEmpty))

MinOrZero(S) == IF S = {} THEN 0 ELSE MinOf(S)

\* lines 362-370: the first column whose header holds a keyword, 0 if none
KeywordColumn(header_rows, max_cols, keywords) ==
    MinOrZero({col \in 1..max_cols :
                  contains_keywords(ColumnHeader(header_rows, col), keywords)})

\* max(len(row) for row in rows)
MaxCols(rows) ==
    CHOOSE n \in {Len(rows[r]) : r \in 1..Len(rows)} : \A r \in 1..Len(rows) : Len(rows[r]) <= n

\* lines 350-396, from the header rows rows[:data_start_idx] or rows[:1]
HeaderSamples(rows, data_start, header_rows) ==
    ColumnSamples(rows, data_start,
                  KeywordColumn(header_rows, MaxCols(rows), NLDFT_AVG_KEYWORDS_CLEAN),
                  KeywordColumn(header_rows, MaxCols(rows), NLDFT_INTEGRAL_KEYWORDS_CLEAN))

\* lines 342-396; data_start = 0 is None
DataSamples(rows, data_start) ==
    IF data_start = 0 THEN <<>>
    ELSE HeaderSamples(rows, data_start,
                       IF data_start > 1 THEN SubSeq(rows, 1, data_start - 1)
                       ELSE SubSeq(rows, 1, 1))

\* lines 338-340: the table is a candidate
HasNldftMarker(preview_text) ==
    Contains(L.nldft, preview_text) \/ Contains(L.p_p0, preview_text)

\* lines 334-397: the samples one table contributes
TableSamples(rows) ==
    IF rows = <<>> \/ ~HasNldftMarker(Lower(JoinRows(FirstRows(rows, 3)))) THEN <<>>
    ELSE DataSamples(rows, MinOrZero({r \in 1..Len(rows) : is_data_row(rows[r])}))

RECURSIVE AggregatedRows(_, _)
AggregatedRows(tables, k) ==
    IF k > Len(tables) THEN <<>>
    ELSE TableSamples(tables[k].rows) \o AggregatedRows(tables, k + 1)

\* item < prev - 1e-8
Below1e8(item, prev) ==
    LET diff == RSub(prev, item) IN diff[1] > diff[2] \div 100000000

\* the monotonic check kept comparing with the first diameter
RECURSIVE DescendsFrom_prev_kept(_, _, _)
DescendsFrom_prev_kept(rows, k, prev) ==
    IF k > Len(rows) THEN FALSE
    ELSE IF Below1e8(rows[k].average_pore_diameter, prev) THEN TRUE
    ELSE DescendsFrom_prev_kept(rows, k + 1, prev)

\* lines 402-409: some diameter lies below its predecessor
RECURSIVE DescendsFrom(_, _, _)
DescendsFrom(rows, k, prev) ==
    IF k > Len(rows) THEN FALSE
    ELSE IF Below1e8(rows[k].average_pore_diameter, prev) THEN TRUE
    ELSE DescendsFrom(rows, k + 1, rows[k].average_pore_diameter)

\* (r.pore_integral_volume, r.average_pore_diameter) <= the key of o
KeyLe(r, o) ==
    \/ RLt(r.pore_integral_volume, o.pore_integral_volume)
    \/ /\ r.pore_integral_volume = o.pore_integral_volume
       /\ RLe(r.average_pore_diameter, o.average_pore_diameter)

RECURSIVE InsertByKey(_, _)
InsertByKey(sorted, r) ==
    IF sorted = <<>> THEN <<r>>
    ELSE IF KeyLe(sorted[Len(sorted)], r) THEN Append(sorted, r)
    ELSE Append(InsertByKey(SubSeq(sorted, 1, Len(sorted) - 1), r), sorted[Len(sorted)])

RECURSIVE SortByKeyFrom(_, _, _)
SortByKeyFrom(rows, idx, acc) ==
    IF idx > Len(rows) THEN acc
    ELSE SortByKeyFrom(rows, idx + 1, InsertByKey(acc, rows[idx]))

\* extract_nldft_data: [raised |-> TRUE] is the ValueError of line 405
extract_nldft_data(tables) ==
    LET Checked(aggregated_rows) ==
            IF aggregated_rows = <<>> THEN [raised |-> FALSE, rows |-> <<>>]
            ELSE IF DescendsFrom(aggregated_rows, 2, aggregated_rows[1].average_pore_diameter)
            THEN [raised |-> TRUE, rows |-> <<>>]
            ELSE [raised |-> FALSE, rows |-> SortByKeyFrom(aggregated_rows, 1, <<>>)]
    IN  Checked(AggregatedRows(tables, 1))

\* lines 472-476: summary, most_probable and the series of one pass (a
\* ValueError of the series extraction is left to the caller)
ExtractPass(tables) ==
    [tables |-> tables,
     summary |-> extract_summary_metrics(tables),
     most_probable |-> extract_value_by_label(tables),
     nldft |-> extract_nldft_data(tables)]

\* lines 492-550: the result, from the tables and extractions in force
StructuredResult(pass) ==
    IF pass.tables = <<>> THEN Failure(M.NoTables)
    ELSE IF pass.nldft.rows = <<>> THEN Failure(M.NoNldft)
    ELSE IF pass.summary.total_pore_vol = <<>> THEN Failure(M.NoTotalPoreVolume)
    ELSE IF ~FloatOk(pass.summary.total_pore_vol) THEN Failure(M.TotalPoreVolumeParse)
    ELSE ProcessResult(TRUE, "",
             [sp_bet |-> pass.summary.sp_bet, mp_bet |-> pass.summary.mp_bet,
              total_pore_vol |-> pass.summary.total_pore_vol,
              avg_pore_d |-> pass.summary.avg_pore_d,
              most_probable |-> pass.most_probable],
             pass.nldft.rows,
             DerivedMetrics(ParseFloat(pass.summary.total_pore_vol), pass.most_probable,
                            pass.nldft.rows, 12))

\* an outcome of a call: [raised |-> TRUE] is an exception leaving the
\* function, Returned(r) is "return r"
Returned(r) == [raised |-> FALSE, value |-> r]

Raised == [raised |-> TRUE, value |-> <<>>]

\* lines 492-550 after the pass in force; the ValueError of line 490 is not
\* caught
StructuredOutcome(pass) ==
    IF pass.nldft.raised THEN Raised ELSE Returned(StructuredResult(pass))

\* lines 481-490: the fallback pass over the unfiltered tables
StructuredFallback(first, fallback) ==
    IF fallback.raised THEN Returned(Failure(M.StructuredFailed))
    ELSE StructuredOutcome(IF fallback.tables = <<>>
                           THEN [first EXCEPT !.nldft.raised = FALSE]
                           ELSE ExtractPass(fallback.tables))

\* lines 472-481: the first pass, its ValueError caught (lines 475-479)
StructuredFirst(file, pass) ==
    IF \/ pass.tables = <<>> \/ pass.nldft.rows = <<>>
       \/ pass.summary.total_pore_vol = <<>> \/ pass.nldft.raised
    THEN StructuredFallback(pass, collect_tables(file, FALSE, FALSE))
    ELSE Returned(StructuredResult(pass))

StructuredCollected(file, collected) ==
    IF collected.raised THEN Returned(Failure(M.StructuredFailed))
    ELSE StructuredFirst(file, ExtractPass(collected.tables))

\* process_pdf_structured
process_pdf_structured(file) == StructuredCollected(file, collect_tables(file, TRUE, TRUE))

(***************************************************************************)
(* PDF files given to the table-grid backend.  Page 1 carries the summary  *)
(* table and the most-probable-diameter table, page 2 the distribution     *)
(* table, whole or split in two tables that both carry the header rows.    *)
(* A diameter cell is a four-decimal number, a zero, or a number with      *)
(* fewer decimals.                                                         *)
(***************************************************************************)
DiameterCells == {"d1", "d2", "d3", "zero", "short"}

DiameterTok(kind) ==
    IF kind = "d1" THEN <<"1", ".", "0", "0", "0", "0">>
    ELSE IF kind = "d2" THEN <<"2", ".", "0", "0", "0", "0">>
    ELSE IF kind = "d3" THEN <<"3", ".", "0", "0", "0", "0">>
    ELSE IF kind = "zero" THEN <<"0", ".", "0", "0", "0", "0">>
    ELSE <<"2", ".", "5">>

\* the integral-volume cell of row k: 0.1, 0.5, then 0.9000004
VolumeTok(k) == IF k = 3 THEN <<"0", ".", "9", "0", "0", "0", "0", "0", "4">> ELSE IntTok(k)

P_PoreVolume == <<"P", "o", "r", "e", " ", "V", "o", "l", "u", "m", "e">>

P_Page2 == <<"p", ".", " ", "2">>

H_Range == <<"n", "m">>

SummaryTable(rep) ==
    <<<<P_PoreVolume>>>>
    \o (IF rep.summary = "unit" THEN <<<<K.TotalPoreVolume, V_total_pore_vol, U.cm3g>>>>
        ELSE <<<<K.TotalPoreVolume, V_total_pore_vol>>>>)
    \o <<<<<<>>, <<>>>>>>

MostProbableTable == <<<<K.MostProbable \o <<" ">>, V_most_probable>>>>

HeaderRows(rep) ==
    (IF rep.header = "no_marker" THEN <<>> ELSE <<<<C.NLDFT>>>>)
    \o <<<<H_Range,
           IF rep.header = "no_avg" THEN U.nm ELSE L.zh_average_pore_diameter \o <<"(">> \o U.nm \o <<")">>,
           L.zh_pore_integral_volume>>>>

DataRows(rep, first, last) ==
    [k \in 1..(last - first + 1) |->
        <<RangeTok(first + k - 1), DiameterTok(rep.cells[first + k - 1]),
          VolumeTok(first + k - 1)>>]

DistributionTables(rep) ==
    IF rep.split /\ Len(rep.cells) >= 2
    THEN <<HeaderRows(rep) \o DataRows(rep, 1, 1),
           HeaderRows(rep) \o DataRows(rep, 2, Len(rep.cells))>>
    ELSE <<HeaderRows(rep) \o DataRows(rep, 1, Len(rep.cells))>>

PdfFile(rep) ==
    [readable |-> rep.readable,
     pages |-> <<[text |-> P_PoreVolume,
                  tables |-> (IF rep.summary = "none" THEN <<>> ELSE <<SummaryTable(rep)>>)
                             \o (IF rep.mp THEN <<MostProbableTable>> ELSE <<>>)],
                 [text |-> IF rep.keyword THEN C.NLDFT ELSE P_Page2,
                  tables |-> DistributionTables(rep)]>>]

CellLayouts == UNION {[1..n -> DiameterCells] : n \in 0..MaxRows}

\* the grids given to extract_nldft_data
GridReports ==
    [backend : {"B"}, readable : {TRUE}, keyword : {TRUE}, summary : {"ok"},
     mp : {TRUE}, header : {"full"}, split : BOOLEAN, cells : CellLayouts]
    \cup [backend : {"B"}, readable : {TRUE}, keyword : {TRUE}, summary : {"ok"},
          mp : {TRUE}, header : {"no_avg", "no_marker"}, split : {FALSE}, cells : CellLayouts]

NumberLayouts == UNION {[1..n -> {"d1", "d2", "d3"}] : n \in 0..MaxRows}

\* the files given to process_pdf_structured
PdfReports ==
    [backend : {"B"}, readable : {TRUE}, keyword : BOOLEAN, summary : {"none", "ok", "unit"},
     mp : BOOLEAN, header : {"full"}, split : BOOLEAN, cells : NumberLayouts]
    \cup [backend : {"B"}, readable : {TRUE}, keyword : BOOLEAN, summary : {"ok"},
          mp : {TRUE}, header : {"no_avg", "no_marker"}, split : {FALSE},
          cells : {<<"d1", "short", "d3">>, <<"zero", "d2">>}]
    \cup [backend : {"B"}, readable : {FALSE}, keyword : {TRUE}, summary : {"ok"},
          mp : {TRUE}, header : {"full"}, split : {FALSE}, cells : {<<"d1", "d2", "d3">>}]

(***************************************************************************)
(* Specification of the orchestrators: one report, one call.               *)
(***************************************************************************)
Init ==
    /\ pc = "request"
    /\ report \in TextReports \cup BlankTextReports \cup PdfReports
    /\ text = IF report.backend = "A" THEN RawText(report) ELSE <<>>
    /\ pdf = IF report.backend = "B" THEN PdfFile(report) ELSE <<>>
    /\ lines = <<>>
    /\ i = 0
    /\ data = <<>>
    /\ target = RZero
    /\ ret = RZero
    /\ result = <<>>

\* process_pdf(pdf_path) returns
ProcessPdf ==
    /\ pc = "request"
    /\ report.backend = "A"
    /\ result' = process_pdf(text)
    /\ pc' = "returned"
    /\ UNCHANGED <<report, text, lines, i, data, target, ret, pdf>>

\* process_pdf_structured(pdf_path) returns, or an exception leaves it
ProcessPdfStructured ==
    /\ pc = "request"
    /\ report.backend = "B"
    /\ LET Outcome(o) == /\ result' = o.value
                          /\ pc' = IF o.raised THEN "raised" ELSE "returned"
       IN  Outcome(process_pdf_structured(pdf))
    /\ UNCHANGED <<report, text, lines, i, data, target, ret, pdf>>

Next == ProcessPdf \/ ProcessPdfStructured

Spec == Init /\ [][Next]_vars

ZeroMetrics(r) ==
    \A f \in {"d10_int", "d10", "d90_int", "d90", "d90_d10_ratio", "pore_volume_A",
              "d0_5", "volume_0_5D", "less_than_0_5D",
              "d1_5", "volume_1_5D", "greater_than_1_5D"} : r[f] = RZero

\* C1: a report with the single-point BET line, the total-pore-volume line
\* 1.000 and an NLDFT block of three rows (diameters 1.0, 2.0, 3.0, integral
\* volumes 0.1, 0.5, 0.9) gives success with d10 = 1.0, d90 = 3.0,
\* d90_d10_ratio = 3.0 and pore_volume_A = 0.9.
C1_EndToEnd ==
    (/\ pc = "returned" /\ report.backend = "A"
     /\ report.surface # "none" /\ report.tpv = "ok"
     /\ report.start /\ Len(report.rows) = 3)
    => /\ result.success
       /\ result.d10 = <<1, 1>>
       /\ result.d90 = <<3, 1>>
       /\ result.d90_d10_ratio = <<3, 1>>
       /\ result.pore_volume_A = <<9, 10>>

\* C2: a returned result with success = FALSE has a non-empty error_message
\* and all twelve derived metrics 0; a returned result with success = TRUE
\* has an empty error_message.
C2_FailureShape ==
    pc = "returned" =>
        /\ ~result.success => (result.error_message # "" /\ ZeroMetrics(result))
        /\ result.success => result.error_message = ""

\* a failure although a series was reconstructed: the total pore volume is
\* missing from a report with a distribution block
C2_Witness ==
    /\ pc = "returned" /\ ~result.success
    /\ report.backend = "A" /\ report.start /\ Len(report.rows) = 3
    /\ report.tpv = "none"

\* C3: no exception leaves an orchestrator: every call returns a result.
C3_NoEscape == pc # "raised"

\* C4: process_pdf succeeds exactly when the text is not blank, at least one
\* sample was reconstructed and the total pore volume was found and parses;
\* the other scalars play no part.
C4_SuccessIff ==
    LET Conditions(t) ==
            /\ Strip(t) # <<>>
            /\ parse_nldft_pairs(t) # <<>>
            /\ extract_value_near(t, K.TotalPoreVolume, U.cm3g, 1000, <<>>) # <<>>
            /\ FloatOk(extract_value_near(t, K.TotalPoreVolume, U.cm3g, 1000, <<>>))
    IN  (pc = "returned" /\ report.backend = "A") =>
            /\ result.success <=> Conditions(clean_text(text))
            /\ result.success <=> (/\ report.blank = "no" /\ report.start
                                   /\ Len(report.rows) >= 1 /\ report.tpv = "ok")

\* a success without any of the four optional scalars
C4_Witness ==
    /\ pc = "returned" /\ report.backend = "A" /\ result.success
    /\ result.sp_bet = <<>> /\ result.mp_bet = <<>>
    /\ result.avg_pore_d = <<>> /\ result.most_probable = <<>>

(***************************************************************************)
(* Specification of the table reconstruction: extract_nldft_data on the    *)
(* tables of one file.                                                     *)
(***************************************************************************)
InitGrid ==
    /\ pc = "grid"
    /\ report \in GridReports
    /\ text = <<>>
    /\ pdf = PdfFile(report)
    /\ lines = <<>>
    /\ i = 0
    /\ data = <<>>
    /\ target = RZero
    /\ ret = RZero
    /\ result = <<>>

\* extract_nldft_data(tables) returns or raises
ExtractNldftData ==
    /\ pc = "grid"
    /\ result' = extract_nldft_data(collect_tables(pdf, FALSE, FALSE).tables)
    /\ pc' = "extracted"
    /\ UNCHANGED <<report, text, lines, i, data, target, ret, pdf>>

NextGrid == ExtractNldftData

SpecGrid == InitGrid /\ [][NextGrid]_vars

\* the diameters of the accepted rows of a report, in table and row order
RECURSIVE AcceptedDiameters(_, _)
AcceptedDiameters(rep, k) ==
    IF rep.header # "full" \/ k > Len(rep.cells) THEN <<>>
    ELSE (IF rep.cells[k] = "d1" THEN <<<<1, 1>>>>
          ELSE IF rep.cells[k] = "d2" THEN <<<<2, 1>>>>
          ELSE IF rep.cells[k] = "d3" THEN <<<<3, 1>>>>
          ELSE <<>>) \o AcceptedDiameters(rep, k + 1)

HasDescent(ds) == \E k \in 2..Len(ds) : RLt(ds[k], ds[k - 1])

\* C8: when the accepted average diameters, in table and row order, hold an
\* element smaller than its predecessor, extract_nldft_data raises instead
\* of returning a series.
C8_MonotonicFailure ==
    (pc = "extracted" /\ HasDescent(AcceptedDiameters(report, 1))) => result.raised

\* the out-of-order element is the last of three, above the first
C8_Witness ==
    /\ pc = "extracted" /\ result.raised
    /\ report.header = "full" /\ report.cells = <<"d1", "d3", "d2">>

(***************************************************************************)
(* extract_value_near on its own.  A placed text is filler with the        *)
(* keyword "zui ke ji kong jing" (most probable pore diameter) at some of  *)
(* the keyword offsets, each occurrence but at most one followed by        *)
(* ": <value> (nm)", and the reference keyword "NLDFT xiang xi shu ju" at  *)
(* some of the reference offsets (offsets are 0-based, as str positions).  *)
(* The other text is the one of src/debug_pdf_processor.py.                *)
(***************************************************************************)
KeywordOffsets == {20, 50, 80, 130, 160, 200}

ReferenceOffsets == {100, 230}

Windows == {20, 200, 1000}

ReferenceKeyword == C.NLDFT \o C.DetailedData

\* the value written after the occurrence at offset p
ValueAt(p) ==
    CASE p = 20  -> <<"1", ",", "2", "3", "4">>
      [] p = 50  -> <<"2", ".", "2", "2">>
      [] p = 80  -> <<"5", ".", "2", "3">>
      [] p = 130 -> <<"3", ".", "4", "5">>
      [] p = 160 -> <<"7", ".", "8", "9">>
      [] OTHER   -> <<"9", ".", "9", "9">>

\* an occurrence with its value: keyword: value (nm)
ValuedToken(p) == K.MostProbable \o <<":", " ">> \o ValueAt(p) \o <<" ", "(">> \o U.nm \o <<")">>

TokenAt(rep, p) ==
    IF p \in rep.refs THEN ReferenceKeyword
    ELSE IF p = rep.bare THEN K.MostProbable
    ELSE ValuedToken(p)

PlacedText(rep) ==
    [q \in 1..250 |->
        LET at == {p \in rep.kws \cup rep.refs : p < q /\ q <= p + Len(TokenAt(rep, p))} IN
        IF at = {} THEN "_" ELSE TokenAt(rep, MinOf(at))[q - MinOf(at)]]

\* test_text of src/debug_pdf_processor.py
test_text ==
    <<"\n",
      "bi3", "biao3", "mian4", "ji1", "fen1", "xi1x", "bao4", "gao4", "\n",
      "dan1", "dian3", "B", "E", "T", "bi3", "biao3", "mian4", "ji1", ":", " ", "1", "2", "3",
      ".", "4", "5", " ", "(", "m", "^", "2", "/", "g", ")", "\n",
      "duo1", "dian3", "B", "E", "T", "bi3", "biao3", "mian4", "ji1", ":", " ", "1", "2", "5",
      ".", "6", "7", " ", "(", "m", "^", "2", "/", "g", ")", "\n",
      "\n",
      "kong3", "jing4", "fen1", "xi1x", "bao4", "gao4", "\n",
      "zui4", "ke3", "ji3", "kong3", "jing4", ":", " ", "5", ".", "2", "3", " ", "(", "n", "m",
      ")", "\n",
      "\n",
      "N", "L", "D", "F", "T", "xiang2", "xi4", "shu4", "ju4", "\n",
      "kong3", "jing4", "fan4", "wei2", " ", " ", " ", " ", "ping2", "jun1", "kong3", "jing4",
      " ", " ", " ", " ", "kong3", "wei1", "fen1", "ti3", "ji1", " ", " ", " ", " ", "kong3",
      "ji1", "fen1", "ti3", "ji1", "\n",
      "1", ".", "0", "-", "2", ".", "0", " ", " ", " ", " ", " ", "1", ".", "5", " ", " ", " ",
      " ", " ", " ", " ", " ", " ", "0", ".", "1", "2", "3", " ", " ", " ", " ", " ", " ", " ",
      " ", " ", "0", ".", "4", "5", "6", "\n",
      "2", ".", "0", "-", "3", ".", "0", " ", " ", " ", " ", " ", "2", ".", "5", " ", " ", " ",
      " ", " ", " ", " ", " ", " ", "0", ".", "2", "3", "4", " ", " ", " ", " ", " ", " ", " ",
      " ", " ", "0", ".", "7", "8", "9", "\n",
      "3", ".", "0", "-", "4", ".", "0", " ", " ", " ", " ", " ", "3", ".", "5", " ", " ", " ",
      " ", " ", " ", " ", " ", " ", "0", ".", "3", "4", "5", " ", " ", " ", " ", " ", " ", " ",
      " ", " ", "1", ".", "2", "3", "4", "\n",
      "\n",
      "zui4", "ke3", "ji3", "kong3", "jing4", ":", " ", "3", ".", "4", "5", " ", "(", "n", "m",
      ")", "\n",
      "\n",
      "qi2", "ta1", "shu4", "ju4", "\n",
      "zui4", "ke3", "ji3", "kong3", "jing4", ":", " ", "7", ".", "8", "9", " ", "(", "n", "m",
      ")", "\n">>

NearReports ==
    {[kind |-> "placed", kws |-> kws, bare |-> bare, refs |-> refs, window |-> w,
      use_ref |-> u] :
        kws \in SUBSET KeywordOffsets, bare \in KeywordOffsets \cup {0},
        refs \in SUBSET ReferenceOffsets, w \in Windows, u \in BOOLEAN}
    \cup
    {[kind |-> "debug", kws |-> {}, bare |-> 0, refs |-> {}, window |-> w, use_ref |-> u] :
        w \in {200, 1000}, u \in BOOLEAN}

InitNear ==
    /\ pc = "near"
    /\ report \in {rep \in NearReports :
                      /\ rep.bare \in rep.kws \cup {0}
                      /\ rep.use_ref \/ rep.refs = {100}}
    /\ text = IF report.kind = "debug" THEN test_text ELSE PlacedText(report)
    /\ pdf = <<>>
    /\ lines = <<>>
    /\ i = 0
    /\ data = <<>>
    /\ target = RZero
    /\ ret = <<>>
    /\ result = <<>>

\* extract_value_near(text, keyword, "nm", window[, reference_keyword]) returns
CallExtractValueNear ==
    /\ pc = "near"
    /\ ret' = extract_value_near(text, K.MostProbable, U.nm, report.window,
                                 IF report.use_ref THEN ReferenceKeyword ELSE <<>>)
    /\ pc' = "located"
    /\ UNCHANGED <<report, text, lines, i, data, target, pdf, result>>

NextNear == CallExtractValueNear

SpecNear == InitNear /\ [][NextNear]_vars

\* the value text without thousands separators
NoCommas(v) == SelectSeq(v, LAMBDA c : c # ",")

\* twice |keyword_pos - reference_pos|, halved when the keyword lies after
\* the reference
BiasedDistance2(p, r) == IF p > r THEN p - r ELSE 2 * (r - p)

\* the keyword occurrences of least biased distance over all pairs
NearestToReference(rep) ==
    {p \in rep.kws : \E r \in rep.refs :
        \A q \in rep.kws, r2 \in rep.refs : BiasedDistance2(p, r) <= BiasedDistance2(q, r2)}

C12_DebugScriptValue ==
    (pc = "located" /\ report.kind = "debug" /\ report.use_ref /\ report.window = 1000)
    => ret = <<"3", ".", "4", "5">>

\* the positions extract_value_near may anchor at: the first occurrence, or
\* with a reference keyword that occurs, an occurrence nearest to it
Anchors(rep) ==
    IF rep.use_ref /\ rep.refs # {} THEN NearestToReference(rep)
    ELSE {p \in rep.kws : \A q \in rep.kws : p <= q}

\* the number(nm) tokens of a placed text that lie in the window around
\* anchor a, as [number, from, to] with from and to the 0-based span of the
\* token; a number the window's left edge cuts is seen from its first digit
\* inside the window
TokensInWindow(rep, a) ==
    LET start == Max2(0, a - rep.window \div 2)
        end   == IF 250 < a + rep.window \div 2 THEN 250 ELSE a + rep.window \div 2
        First(q) == MinOf({k \in 1..Len(ValueAt(q)) :
                              q + 7 + k - 1 >= start /\ IsDigit(ValueAt(q)[k])})
    IN  {[number |-> SubSeq(ValueAt(q), First(q), Len(ValueAt(q))),
          from |-> q + 7 + First(q) - 1,
          to |-> q + 7 + Len(ValueAt(q)) + 5] :
            q \in {p \in rep.kws \ {rep.bare} :
                      /\ p + 7 + Len(ValueAt(p)) + 5 <= end
                      /\ start <= p + 7 + Len(ValueAt(p)) - 1}}

\* ret is what the locator owes for anchor a: nothing without a token in
\* the window, else the number of a token whose centre is closest to a
LocatedAround(rep, a, value) ==
    LET toks == TokensInWindow(rep, a)
        Off2(tok) == Abs(tok.from + tok.to - 2 * a)
    IN  IF toks = {} THEN value = <<>>
        ELSE \E tok \in toks : /\ \A o \in toks : Off2(tok) <= Off2(o)
                               /\ value = NoCommas(tok.number)

\* C20: extract_value_near returns the empty string when the keyword is
\* absent or no number(unit) token lies in the window around the anchor,
\* otherwise the number, thousands separators removed, of the match whose
\* centre is closest to the anchor; every call returns.
C20_SoftLocator ==
    (pc = "located" /\ report.kind = "placed")
    => /\ report.kws = {} => ret = <<>>
       /\ report.kws # {} => \E a \in Anchors(report) : LocatedAround(report, a, ret)

C20_Witness ==
    /\ pc = "located" /\ report.kind = "placed" /\ ~report.use_ref
    /\ report.kws = {20, 50} /\ report.bare = 0 /\ report.window = 200
    /\ ret = <<"1", "2", "3", "4">>

(***************************************************************************)
(* The processor variants pdf_processor_v2 and pyd, from the extracted     *)
(* scalars and series on: their extraction front ends are not modelled.    *)
(***************************************************************************)
\* pyd.py lines 321-353: as pdf_processor.py lines 347-377, except that
\* line 346 subtracts pore_volume_A from volume_1_5D
pyd_metrics(total, most_probable, nldft) ==
    LET Reversed(m) ==
            [m EXCEPT !.greater_than_1_5D =
                IF most_probable # <<>> /\ FloatOk(most_probable) /\ Above1e9(m.pore_volume_A)
                THEN RMul(RDiv(RSub(m.volume_1_5D, m.pore_volume_A), m.pore_volume_A), Hundred)
                ELSE RZero]
    IN  Reversed(DerivedMetrics(total, most_probable, nldft, 9))

\* pyd.process_pdf, lines 307-378
pyd_process_extracted(scalars, nldft) ==
    IF nldft = <<>> THEN Failure(M.NoNldft)
    ELSE IF scalars.total_pore_vol = <<>> THEN Failure(M.NoTotalPoreVolume)
    ELSE IF ~FloatOk(scalars.total_pore_vol) THEN Failure(M.TotalPoreVolumeParse)
    ELSE ProcessResult(TRUE, "", scalars, nldft,
             pyd_metrics(ParseFloat(scalars.total_pore_vol), scalars.most_probable, nldft))

\* pdf_processor_v2.process_pdf, lines 360-415
v2_process_extracted(scalars, nldft) ==
    IF nldft = <<>> THEN Failure(M.NoNldft)
    ELSE IF scalars.total_pore_vol = <<>> THEN Failure(M.NoTotalPoreVolume)
    ELSE IF ~FloatOk(scalars.total_pore_vol) THEN Failure(M.TotalPoreVolumeParse)
    ELSE ProcessResult(TRUE, "", scalars, nldft,
             DerivedMetrics(ParseFloat(scalars.total_pore_vol), scalars.most_probable,
                            nldft, 12))

(***************************************************************************)
(* Reports with chosen numbers: a total pore volume, the most probable     *)
(* diameter or none, and a distribution table of well-formed rows, every   *)
(* row with its adsorption cell.  Rendered as text for pdf_processor, as   *)
(* PDF tables for the table-grid backend, and as the extracted values for  *)
(* pdf_processor_v2 and pyd.                                               *)
(***************************************************************************)
MaxValueRows == 2

\* (average diameter, integral volume) cells of a row
ValueRows ==
    {<<<<"1", ".", "0", "0", "0", "0">>, <<"0", ".", "1">>>>,
     <<<<"2", ".", "0", "0", "0", "0">>, <<"0", ".", "5">>>>,
     <<<<"1", ".", "0", "0", "0", "0">>, <<"0", ".", "5">>>>,
     <<<<"0", ".", "0", "0", "0", "0">>, <<"0", ".", "1">>>>,
     <<<<"-", "1", ".", "0", "0", "0", "0">>, <<"0", ".", "1">>>>,
     <<<<"1", ".", "0", "0", "0", "0">>, <<"-", "0", ".", "5">>>>,
     <<<<"2", ".", "0", "0", "0", "0">>, <<"0", ".", "0">>>>}

TotalToks == {<<"1", ".", "0", "0", "0">>, <<"4">>}

MostProbableToks == {<<>>, <<"2", ".", "0">>, <<"1", ".", "0">>}

ValueReports ==
    [backend : {"A", "B", "v2", "pyd"}, call : {"process"},
     rows : UNION {[1..n -> ValueRows] : n \in 1..MaxValueRows},
     total : TotalToks, mp : MostProbableToks]
    \cup [backend : {"A", "B"}, call : {"series"},
          rows : UNION {[1..n -> ValueRows] : n \in 1..MaxValueRows},
          total : {<<"4">>}, mp : {<<>>}]

ValueText(rep) ==
    JoinLines(<<TitleLine, ScalarLine(K.TotalPoreVolume, rep.total, U.cm3g)>>
                \o (IF rep.mp = <<>> THEN <<>>
                    ELSE <<ScalarLine(K.MostProbable, rep.mp, U.nm)>>)
                \o <<C.NLDFT \o C.DetailedData>>, FALSE)
    \o JoinLines([k \in 1..(5 * Len(rep.rows)) |->
                    LET r == (k - 1) \div 5 + 1 IN
                    CASE k % 5 = 1 -> RangeTok(r)
                      [] k % 5 = 2 -> rep.rows[r][1]
                      [] k % 5 = 3 -> DiffTok
                      [] k % 5 = 4 -> rep.rows[r][2]
                      [] OTHER     -> AdsTok], FALSE)

ValuePdf(rep) ==
    [readable |-> TRUE,
     pages |-> <<[text |-> P_PoreVolume,
                  tables |-> <<<<<<P_PoreVolume>>, <<K.TotalPoreVolume, rep.total>>>>>>
                             \o (IF rep.mp = <<>> THEN <<>>
                                 ELSE <<<<<<K.MostProbable, rep.mp>>>>>>)],
                 [text |-> C.NLDFT,
                  tables |-> <<<<<<C.NLDFT>>,
                                 <<H_Range,
                                   L.zh_average_pore_diameter \o <<"(">> \o U.nm \o <<")">>,
                                   L.zh_pore_integral_volume>>>>
                               \o [k \in 1..Len(rep.rows) |->
                                      <<RangeTok(k), rep.rows[k][1], rep.rows[k][2]>>]>>]>>]

\* the series the variants' parse_nldft_pairs hand on: the rows as floats,
\* sorted by integral volume
ValueSeries(rep) ==
    SortByVolume([k \in 1..Len(rep.rows) |->
                     NldftData(ParseFloat(rep.rows[k][1]), ParseFloat(rep.rows[k][2]))])

InitValues ==
    /\ report \in ValueReports
    /\ pc = IF report.call = "process" THEN "request"
            ELSE IF report.backend = "A" THEN "text" ELSE "grid"
    /\ text = IF report.backend = "A" THEN ValueText(report) ELSE <<>>
    /\ pdf = IF report.backend = "B" THEN ValuePdf(report) ELSE <<>>
    /\ lines = <<>>
    /\ i = 0
    /\ data = IF report.backend \in {"v2", "pyd"} THEN ValueSeries(report) ELSE <<>>
    /\ target = RZero
    /\ ret = RZero
    /\ result = <<>>

\* parse_nldft_pairs(text) returns
ParseNldftPairs ==
    /\ pc = "text"
    /\ data' = parse_nldft_pairs(clean_text(text))
    /\ pc' = "parsed"
    /\ UNCHANGED <<report, text, lines, i, target, ret, pdf, result>>

\* pdf_processor_v2.process_pdf returns
ProcessPdfV2 ==
    /\ pc = "request"
    /\ report.backend = "v2"
    /\ result' = v2_process_extracted(
                    [NoScalars EXCEPT !.total_pore_vol = report.total,
                                      !.most_probable = report.mp], data)
    /\ pc' = "returned"
    /\ UNCHANGED <<report, text, lines, i, data, target, ret, pdf>>

\* pyd.process_pdf returns
ProcessPdfPyd ==
    /\ pc = "request"
    /\ report.backend = "pyd"
    /\ result' = pyd_process_extracted(
                    [NoScalars EXCEPT !.total_pore_vol = report.total,
                                      !.most_probable = report.mp], data)
    /\ pc' = "returned"
    /\ UNCHANGED <<report, text, lines, i, data, target, ret, pdf>>

NextValues ==
    \/ ProcessPdf
    \/ ProcessPdfStructured
    \/ ProcessPdfV2
    \/ ProcessPdfPyd
    \/ ParseNldftPairs
    \/ ExtractNldftData

SpecValues == InitValues /\ [][NextValues]_vars

(***************************************************************************)
(* Claims about the derived metrics and the returned series.               *)
(***************************************************************************)
ThresholdFields == {"d0_5", "volume_0_5D", "less_than_0_5D",
                    "d1_5", "volume_1_5D", "greater_than_1_5D"}

\* the total pore volume of a report, as process_pdf parses it
ReportTotal == ParseFloat(report.total)

\* C13: a report without a most probable diameter whose series and total
\* pore volume are found is still a success, by either backend: d10, d90,
\* d90_d10_ratio and pore_volume_A are computed from the series, and d0_5,
\* d1_5, volume_0_5D, volume_1_5D, less_than_0_5D and greater_than_1_5D are 0.
C13_GracefulDegradation ==
    (/\ pc = "returned" /\ report.backend \in {"A", "B"} /\ report.mp = <<>>)
    => /\ result.success \/ result.error_message = M.NoNldft
       /\ report.backend = "A" => result.success
       /\ result.success =>
            /\ \A f \in ThresholdFields : result[f] = RZero
            /\ result.most_probable = <<>>
            /\ result.d10 = interpolate_diameter(RMul(ReportTotal, <<1, 10>>),
                                                 result.nldft_data)
            /\ result.d90 = interpolate_diameter(RMul(ReportTotal, <<9, 10>>),
                                                 result.nldft_data)
            /\ result.d90_d10_ratio = IF result.d10 # RZero
                                      THEN RDiv(result.d90, result.d10) ELSE RZero
            /\ \E k \in 1..Len(result.nldft_data) :
                   result.pore_volume_A = result.nldft_data[k].pore_integral_volume
            /\ \A k \in 1..Len(result.nldft_data) :
                   RLe(result.nldft_data[k].pore_integral_volume, result.pore_volume_A)

\* a success of each backend without a most probable diameter, with a
\* non-zero d10 and pore volume A
C13_Witness ==
    /\ pc = "returned" /\ report.mp = <<>> /\ result.success
    /\ report.backend \in {"A", "B"}
    /\ Len(result.nldft_data) = 2
    /\ result.d10 # RZero /\ result.d90_d10_ratio # RZero
    /\ result.pore_volume_A = <<1, 2>>
    /\ result.d0_5 = RZero /\ result.greater_than_1_5D = RZero

\* the series a state holds as returned: by parse_nldft_pairs, by
\* extract_nldft_data when it does not raise, or inside a successful result
ReturnedSeries ==
    IF pc = "parsed" THEN data
    ELSE IF pc = "extracted" /\ ~result.raised THEN result.rows
    ELSE IF pc = "returned" /\ result.success THEN result.nldft_data
    ELSE <<>>

\* ascending by the pair (pore_integral_volume, average_pore_diameter)
PairLe(a, b) ==
    \/ RLt(a.pore_integral_volume, b.pore_integral_volume)
    \/ /\ a.pore_integral_volume = b.pore_integral_volume
       /\ RLe(a.average_pore_diameter, b.average_pore_diameter)

\* C15: every series returned by either backend is ordered ascending by the
\* pair (pore_integral_volume, average_pore_diameter): samples of equal
\* integral volume appear in ascending diameter order.
C15_SortedByPair ==
    report.backend \in {"A", "B"} =>
        \A k \in 1..(Len(ReturnedSeries) - 1) :
            PairLe(ReturnedSeries[k], ReturnedSeries[k + 1])

\* C16: every sample of a series returned by either backend has
\* average_pore_diameter > 0 and pore_integral_volume >= 0.
C16_SampleRanges ==
    report.backend \in {"A", "B"} =>
        \A k \in 1..Len(ReturnedSeries) :
            /\ RLt(RZero, ReturnedSeries[k].average_pore_diameter)
            /\ RLe(RZero, ReturnedSeries[k].pore_integral_volume)

\* C17: on success d10_int = 0.1 x total pore volume, d90_int = 0.9 x total
\* pore volume, d10 = interpolate_diameter(d10_int), d90 =
\* interpolate_diameter(d90_int), d90_d10_ratio = d90 / d10 when d10 is not 0
\* and 0 otherwise, and pore_volume_A is the largest pore_integral_volume of
\* the series.
C17_QuantileMetrics ==
    (pc = "returned" /\ report.backend \in {"A", "B"} /\ result.success)
    => /\ ParseFloat(result.total_pore_vol) = ReportTotal
       /\ result.d10_int = RMul(ReportTotal, <<1, 10>>)
       /\ result.d90_int = RMul(ReportTotal, <<9, 10>>)
       /\ result.d10 = interpolate_diameter(result.d10_int, result.nldft_data)
       /\ result.d90 = interpolate_diameter(result.d90_int, result.nldft_data)
       /\ result.d10 # RZero => result.d90_d10_ratio = RDiv(result.d90, result.d10)
       /\ result.d10 = RZero => result.d90_d10_ratio = RZero
       /\ \E k \in 1..Len(result.nldft_data) :
              result.pore_volume_A = result.nldft_data[k].pore_integral_volume
       /\ \A k \in 1..Len(result.nldft_data) :
              RLe(result.nldft_data[k].pore_integral_volume, result.pore_volume_A)

\* a success with a most probable diameter, two samples of different
\* integral volume and a d90 that differs from d10
C17_Witness ==
    /\ pc = "returned" /\ report.backend \in {"A", "B"} /\ result.success
    /\ report.mp # <<>>
    /\ Len(result.nldft_data) = 2
    /\ result.nldft_data[1].pore_integral_volume = <<1, 10>>
    /\ result.pore_volume_A = <<1, 2>>
    /\ result.d10_int = <<1, 10>> /\ result.d90_int = <<9, 10>>
    /\ result.d10 = <<1, 1>> /\ result.d90 = <<2, 1>>
    /\ result.d90_d10_ratio = <<2, 1>>

\* pore_volume_A > 1e-9 (pdf_processor, pyd) or > 1e-12 (pdf_processor_v2,
\* pdf_structured_extractor)
AboveZeroThreshold(backend, pore_volume_A) ==
    IF backend \in {"A", "pyd"} THEN Above1e9(pore_volume_A) ELSE Above1e12(pore_volume_A)

\* C18: when the most probable diameter M parses and pore_volume_A is above
\* the zero threshold, pdf_processor, pdf_processor_v2 and pyd all compute
\* d0_5 = 0.5 x M, d1_5 = 1.5 x M, volume_0_5D = interpolate_volume(d0_5),
\* volume_1_5D = interpolate_volume(d1_5), less_than_0_5D = volume_0_5D /
\* pore_volume_A x 100 and greater_than_1_5D = (pore_volume_A - volume_1_5D)
\* / pore_volume_A x 100.
C18_ThresholdMetrics ==
    (/\ pc = "returned" /\ report.backend \in {"A", "v2", "pyd"} /\ result.success
     /\ report.mp # <<>> /\ FloatOk(report.mp)
     /\ AboveZeroThreshold(report.backend, result.pore_volume_A))
    => /\ result.d0_5 = RMul(ParseFloat(report.mp), Half)
       /\ result.d1_5 = RMul(ParseFloat(report.mp), OneAndHalf)
       /\ result.volume_0_5D = interpolate_volume(result.d0_5, result.nldft_data)
       /\ result.volume_1_5D = interpolate_volume(result.d1_5, result.nldft_data)
       /\ result.less_than_0_5D =
              RMul(RDiv(result.volume_0_5D, result.pore_volume_A), Hundred)
       /\ result.greater_than_1_5D =
              RMul(RDiv(RSub(result.pore_volume_A, result.volume_1_5D),
                        result.pore_volume_A), Hundred)

\* C19: when the most probable diameter parses but pore_volume_A is not above
\* the zero threshold, volume_0_5D, volume_1_5D, less_than_0_5D and
\* greater_than_1_5D of the result are all 0.
C19_BelowThresholdZeros ==
    (/\ pc = "returned" /\ report.backend \in {"A", "B"} /\ result.success
     /\ report.mp # <<>> /\ FloatOk(report.mp)
     /\ ~AboveZeroThreshold(report.backend, result.pore_volume_A))
    => /\ result.volume_0_5D = RZero
       /\ result.volume_1_5D = RZero
       /\ result.less_than_0_5D = RZero
       /\ result.greater_than_1_5D = RZero

(***************************************************************************)
(* Concurrent orchestrator calls.  The only state the calls share is the   *)
(* two lru_cache tables of pdf_structured_extractor: normalize_text        *)
(* (maxsize 4096) and extract_number (maxsize 8192).  Each worker runs one *)
(* call; a table-grid call normalises the cells of its tables one by one   *)
(* (_extract_tables_from_page, line 215), then reads the numbers of the    *)
(* normalised cells (lines 277-379), every read going through the caches,  *)
(* and the steps of the workers interleave.  pdf_processor.process_pdf     *)
(* touches no shared state.  The model's caches are small enough that      *)
(* entries are evicted.                                                    *)
(***************************************************************************)
Workers == {1, 2}

MaxCache == 2

\* the entry of a cache that holds a key, 0 when there is none
CacheIndex_by_length(cache, key) ==
    IF \E k \in 1..Len(cache) : Len(cache[k].key) = Len(key)
    THEN MinOf({k \in 1..Len(cache) : Len(cache[k].key) = Len(key)})
    ELSE 0

CacheIndex(cache, key) ==
    IF \E k \in 1..Len(cache) : cache[k].key = key
    THEN MinOf({k \in 1..Len(cache) : cache[k].key = key})
    ELSE 0

\* functools.lru_cache: a hit returns the stored value and makes the entry
\* the most recent one; a miss stores the computed value, dropping the least
\* recent entry of a full cache
CachedCall(cache, key, computed) ==
    LET Hit(idx) ==
            [value |-> cache[idx].value,
             cache |-> SubSeq(cache, 1, idx - 1) \o SubSeq(cache, idx + 1, Len(cache))
                       \o <<cache[idx]>>]
        Miss == [value |-> computed,
                 cache |-> (IF Len(cache) >= MaxCache THEN Tail(cache) ELSE cache)
                           \o <<[key |-> key, value |-> computed]>>]
    IN  IF CacheIndex(cache, key) # 0 THEN Hit(CacheIndex(cache, key)) ELSE Miss

\* extract_number(value) behind its cache: a miss runs the body, whose
\* normalize_cell reads normalize_text through the other cache
CachedExtractNumberCall(caches, value) ==
    LET Body(norm) ==
            [value |-> extract_number(norm.value),
             caches |-> [caches EXCEPT !.normalize_text = norm.cache]]
        Stored(body, call) ==
            [value |-> call.value,
             caches |-> [body.caches EXCEPT !.extract_number = call.cache]]
        Miss(body) == Stored(body, CachedCall(caches.extract_number, value, body.value))
    IN  IF CacheIndex(caches.extract_number, value) # 0
        THEN Stored([caches |-> caches], CachedCall(caches.extract_number, value, <<>>))
        ELSE Miss(Body(CachedCall(caches.normalize_text, value, normalize_text(value))))

\* the cells of the tables of a file, by page, table, row and column
CellKeys(file) ==
    UNION {UNION {UNION {{<<p, t, r, c>> : c \in 1..Len(file.pages[p].tables[t][r])} :
                         r \in 1..Len(file.pages[p].tables[t])} :
                  t \in 1..Len(file.pages[p].tables)} :
           p \in 1..Len(file.pages)}

KeyBefore(a, b) ==
    \E n \in 1..4 : a[n] < b[n] /\ \A m \in 1..(n - 1) : a[m] = b[m]

\* the position of a cell in reading order
CellNo(file, key) == Cardinality({k \in CellKeys(file) : KeyBefore(k, key)}) + 1

CellAt(file, n) ==
    LET At(k) == file.pages[k[1]].tables[k[2]][k[3]][k[4]]
    IN  At(CHOOSE k \in CellKeys(file) : CellNo(file, k) = n)

\* the file with every cell as the call obtained it
SeenFile(file, seen) ==
    [file EXCEPT !.pages =
        [p \in 1..Len(file.pages) |->
            [file.pages[p] EXCEPT !.tables =
                [t \in 1..Len(file.pages[p].tables) |->
                    [r \in 1..Len(file.pages[p].tables[t]) |->
                        [c \in 1..Len(file.pages[p].tables[t][r]) |->
                            seen[CellNo(file, <<p, t, r, c>>)]]]]]]]

\* a file whose cells carry the padding some PDFs give them
PaddedPdf(rep) ==
    LET Padded(file) ==
            SeenFile(file, [n \in 1..Cardinality(CellKeys(file)) |->
                               <<"nbsp">> \o CellAt(file, n) \o <<" ">>])
    IN  Padded(ValuePdf(rep))

CallRows == <<<<<<"1", ".", "0", "0", "0", "0">>, <<"0", ".", "5">>>>>>

CallReports ==
    [backend : {"B"}, call : {"process"}, rows : {CallRows},
     total : TotalToks, mp : {<<"2", ".", "0">>}]
    \cup [backend : {"A"}, call : {"process"}, rows : {CallRows},
          total : {<<"4">>}, mp : {<<"2", ".", "0">>}]

NoCells(w) == Cardinality(CellKeys(pdf[w]))

InitCalls ==
    /\ report \in [Workers -> CallReports]
    /\ pc = [w \in Workers |-> "request"]
    /\ text = [w \in Workers |->
                  IF report[w].backend = "A" THEN ValueText(report[w]) ELSE <<>>]
    /\ pdf = [w \in Workers |->
                  IF report[w].backend = "B" THEN PaddedPdf(report[w]) ELSE <<>>]
    /\ lines = [w \in Workers |-> <<>>]
    /\ ret = [w \in Workers |-> <<>>]
    /\ i = [w \in Workers |-> 0]
    /\ data = [normalize_text |-> <<>>, extract_number |-> <<>>]
    /\ target = RZero
    /\ result = [w \in Workers |-> <<>>]

\* a table-grid call normalises its next cell
CachedNormalizeText(w) ==
    /\ pc[w] = "request" /\ report[w].backend = "B"
    /\ i[w] < NoCells(w)
    /\ LET Called(cell, call) ==
               /\ lines' = [lines EXCEPT ![w] = Append(@, UnifyNewlines(call.value))]
               /\ data' = [data EXCEPT !.normalize_text = call.cache]
           Cell(cell) ==
               Called(cell, CachedCall(data.normalize_text, cell, normalize_text(cell)))
       IN  Cell(CellAt(pdf[w], i[w] + 1))
    /\ i' = [i EXCEPT ![w] = @ + 1]
    /\ UNCHANGED <<pc, report, text, pdf, ret, target, result>>

\* a table-grid call reads the number of its next normalised cell
CachedExtractNumber(w) ==
    /\ pc[w] = "request" /\ report[w].backend = "B"
    /\ i[w] >= NoCells(w) /\ i[w] < 2 * NoCells(w)
    /\ LET Called(call) ==
               /\ ret' = [ret EXCEPT ![w] = Append(@, call.value)]
               /\ data' = call.caches
       IN  Called(CachedExtractNumberCall(data, lines[w][i[w] - NoCells(w) + 1]))
    /\ i' = [i EXCEPT ![w] = @ + 1]
    /\ UNCHANGED <<pc, report, text, pdf, lines, target, result>>

\* process_pdf_structured returns, from the cells and numbers it obtained
StructuredReturns(w) ==
    /\ pc[w] = "request" /\ report[w].backend = "B"
    /\ i[w] = 2 * NoCells(w)
    /\ LET Outcome(o) ==
               /\ result' = [result EXCEPT ![w] = [value |-> o.value, numbers |-> ret[w]]]
               /\ pc' = [pc EXCEPT ![w] = IF o.raised THEN "raised" ELSE "returned"]
       IN  Outcome(process_pdf_structured(SeenFile(pdf[w], lines[w])))
    /\ UNCHANGED <<report, text, pdf, lines, i, data, target, ret>>

\* pdf_processor.process_pdf returns
TextReturns(w) ==
    /\ pc[w] = "request" /\ report[w].backend = "A"
    /\ result' = [result EXCEPT ![w] = [value |-> process_pdf(text[w]), numbers |-> <<>>]]
    /\ pc' = [pc EXCEPT ![w] = "returned"]
    /\ UNCHANGED <<report, text, pdf, lines, i, data, target, ret>>

NextCalls ==
    \E w \in Workers :
        \/ CachedNormalizeText(w)
        \/ CachedExtractNumber(w)
        \/ StructuredReturns(w)
        \/ TextReturns(w)

SpecCalls == InitCalls /\ [][NextCalls]_vars

\* what a call on a report returns when it runs alone, without the caches
AloneResult(rep) ==
    LET Structured(file) ==
            [value |-> process_pdf_structured(file).value,
             numbers |-> [n \in 1..Cardinality(CellKeys(file)) |->
                             extract_number(CellAt(file, n))]]
    IN  IF rep.backend = "A"
        THEN [value |-> process_pdf(ValueText(rep)), numbers |-> <<>>]
        ELSE Structured(PaddedPdf(rep))

\* C14: the result of an orchestrator call is a function of its input alone:
\* every finished call returns what the call returns when run alone, and two
\* calls on the same input return the same result, whatever calls ran
\* before, in between or interleaved with them; the caches of normalize_text
\* and extract_number never change a result: what a call reads through them
\* is what the uncached function gives.
C14_ResultOfInputAlone ==
    /\ \A w \in Workers :
           /\ \A k \in 1..Len(lines[w]) : lines[w][k] = normalize_cell(CellAt(pdf[w], k))
           /\ \A k \in 1..Len(ret[w]) : ret[w][k] = extract_number(CellAt(pdf[w], k))
    /\ \A v, w \in Workers :
           (pc[v] # "request" /\ pc[w] # "request") =>
               /\ result[w] = AloneResult(report[w])
               /\ report[v] = report[w] => result[v] = result[w]

\* two successful table-grid calls on the same file have returned, after
\* entries of both caches were dropped and reused
C14_Witness ==
    /\ \A w \in Workers : pc[w] = "returned" /\ report[w].backend = "B"
    /\ report[1] = report[2]
    /\ result[1].value.success /\ result[1].value.d0_5 = <<1, 1>>
    /\ Len(data.normalize_text) = MaxCache
    /\ Len(data.extract_number) = MaxCache

(***************************************************************************)
(* Specification of the surface-area map: extract_surface_area_map on      *)
(* texts with or without the surface-area section, some m^2/g results in   *)
(* it, end labels after it, and m^2/g results outside it.                  *)
(***************************************************************************)
MaxSurfaceValues == 8

\* the k-th m^2/g result of the section as written, the first with a
\* thousands separator
SurfaceToken(k) ==
    IF k = 1 THEN <<"1", ",", "0", "0", "1", ".", "5">> ELSE <<"2", Digits[k + 1], ".", "5">>

HeadToken == <<"9", ".", "9", "9">>

TailToken == <<"8", ".", "8", "8">>

EndLabels == <<K.PoreVolumeReport, K.PoreSizeReport, K.SurfaceAndPoreReport>>

SurfaceReports ==
    [head : {"none", "number", "endlabel"}, start : BOOLEAN,
     count : 0..MaxSurfaceValues,
     ends : {<<>>} \cup {<<a>> : a \in 1..3}
            \cup {<<a, b>> : a \in 1..3, b \in 1..3},
     tail : BOOLEAN]

\* the report text: the head lines, the section with its results (and one
\* cm^3/g result), then each end label followed by the tail result
SurfaceText(rep) ==
    JoinLines(
        <<TitleLine>>
        \o (IF rep.head = "number" THEN <<ScalarLine(<<"H">>, HeadToken, U.m2g)>>
            ELSE IF rep.head = "endlabel" THEN <<K.SurfaceAndPoreReport>> ELSE <<>>)
        \o (IF rep.start THEN <<K.SurfaceAreaReport>> ELSE <<>>)
        \o [k \in 1..rep.count |-> ScalarLine(<<"S", Digits[k + 1]>>, SurfaceToken(k), U.m2g)]
        \o <<ScalarLine(<<"V">>, V_total_pore_vol, U.cm3g)>>
        \o (IF rep.ends = <<>> /\ rep.tail
            THEN <<ScalarLine(<<"T">>, TailToken, U.m2g)>> ELSE <<>>)
        \o (IF Len(rep.ends) >= 1
            THEN <<EndLabels[rep.ends[1]]>>
                 \o (IF rep.tail THEN <<ScalarLine(<<"T">>, TailToken, U.m2g)>> ELSE <<>>)
            ELSE <<>>)
        \o (IF Len(rep.ends) = 2 THEN <<EndLabels[rep.ends[2]]>> ELSE <<>>),
        FALSE)

InitSurface ==
    /\ pc = "surface"
    /\ report \in SurfaceReports
    /\ text = SurfaceText(report)
    /\ pdf = <<>>
    /\ lines = <<>>
    /\ i = 0
    /\ data = <<>>
    /\ target = RZero
    /\ ret = RZero
    /\ result = <<>>

\* extract_surface_area_map(text) returns
CallExtractSurfaceAreaMap ==
    /\ pc = "surface"
    /\ result' = extract_surface_area_map(text)
    /\ pc' = "mapped"
    /\ UNCHANGED <<report, text, lines, i, data, target, ret, pdf>>

NextSurface == CallExtractSurfaceAreaMap

SpecSurface == InitSurface /\ [][NextSurface]_vars

\* the m^2/g results written between the start label and the nearest end
\* label after it (the end of the text when there is none), in document
\* order, commas removed
ResultsInSection(rep) ==
    IF ~rep.start THEN <<>>
    ELSE [k \in 1..rep.count |-> RemoveCommas(SurfaceToken(k))]
         \o (IF rep.ends = <<>> /\ rep.tail THEN <<TailToken>> ELSE <<>>)

\* C21: extract_surface_area_map assigns the i-th m^2/g number found, in
\* document order, between the surface-area start label and the nearest
\* following end label (or the end of the text) to the i-th of the seven
\* labels: the assigned labels are the first min(count, 7) labels, numbers
\* before the start label or at or after the nearest end label are never
\* assigned, and without the start label the map is empty.
C21_SurfaceAreaMap ==
    pc = "mapped" =>
        /\ Len(result) = (IF Len(ResultsInSection(report)) < 7
                          THEN Len(ResultsInSection(report)) ELSE 7)
        /\ \A k \in 1..Len(result) :
               /\ MapGet(result, k) = ResultsInSection(report)[k]
               /\ MapGet(result, k) # HeadToken
               /\ (report.ends # <<>> => MapGet(result, k) # TailToken)
        /\ \A k \in (Len(result) + 1)..7 : MapGet(result, k) = <<>>
        /\ ~report.start => result = <<>>

\* eight results in the section, one before the start label and one after
\* the nearer of two end labels, which is not the one listed first: the
\* first seven are assigned
C21_Witness ==
    /\ pc = "mapped" /\ report.start /\ report.head = "number" /\ report.tail
    /\ report.count = 8 /\ report.ends = <<2, 1>>
    /\ Len(result) = 7
    /\ result[1] = <<"1", "0", "0", "1", ".", "5">>
    /\ result[7] = <<"2", "7", ".", "5">>

(***************************************************************************)
(* Specification of the API routes of app/api/routes.py: POST /analyze and *)
(* GET /stats.  The module-level counter total_analysis_count and the      *)
(* stats file are the state the requests share; a handler runs to its      *)
(* response without another handler in between (process_pdf is a blocking *)
(* call).  Writing the upload and the stats file succeeds.                 *)
(***************************************************************************)
MaxRequests == 4

\* uploads: the file name ends with .pdf or not, the size is within
\* MAX_FILE_SIZE or not, the report has its total pore volume or not, and
\* the seconds the analysis takes
Uploads ==
    [pdf_name : BOOLEAN, too_large : BOOLEAN, total : {<<>>, <<"4">>}, seconds : {1, 2}]

\* load_stats(): the content of the stats file, the defaults without one
load_stats(stats_file) ==
    IF stats_file = <<>> THEN [total_analysis_count |-> 0, cpu_time_seconds |-> 0]
    ELSE stats_file

\* update_cpu_time(additional_seconds): the stats file afterwards
update_cpu_time(stats_file, additional_seconds) ==
    [load_stats(stats_file) EXCEPT !.cpu_time_seconds = @ + additional_seconds]

\* process_pdf on the upload's report
UploadResult(upload) ==
    v2_process_extracted(
        [NoScalars EXCEPT !.total_pore_vol = upload.total,
                          !.most_probable = <<"2", ".", "0">>],
        ValueSeries([rows |-> CallRows]))

InitStats ==
    /\ pc = "started"
    /\ report = <<>>
    /\ text = <<>>
    /\ pdf = <<>>
    /\ lines = <<>>
    /\ i = 0
    /\ data \in {[total_analysis_count |-> 0, stats_file |-> f, requests |-> 0] :
                    f \in {<<>>, [total_analysis_count |-> 0, cpu_time_seconds |-> 0]}}
    /\ target = RZero
    /\ ret = <<>>
    /\ result = <<>>

\* POST /analyze answers; i counts the analyses that succeeded
AnalyzePdf ==
    /\ data.requests < MaxRequests
    /\ \E upload \in Uploads :
        LET Rejected ==
                /\ ret' = [status |-> 400, success |-> FALSE, total_analysis_count |-> -1]
                /\ data' = [data EXCEPT !.requests = @ + 1]
                /\ UNCHANGED <<i, result>>
            Failed(r) ==
                /\ ret' = [status |-> 400, success |-> FALSE, total_analysis_count |-> -1]
                /\ data' = [data EXCEPT !.requests = @ + 1]
                /\ result' = r
                /\ UNCHANGED i
            Succeeded(r) ==
                /\ ret' = [status |-> 200, success |-> TRUE,
                           total_analysis_count |-> data.total_analysis_count + 1]
                /\ data' = [data EXCEPT
                               !.requests = @ + 1,
                               !.total_analysis_count = @ + 1,
                               !.stats_file = update_cpu_time(@, upload.seconds)]
                /\ result' = r
                /\ i' = i + 1
            Processed(r) == IF r.success THEN Succeeded(r) ELSE Failed(r)
        IN  /\ report' = upload
            /\ IF ~upload.pdf_name \/ upload.too_large THEN Rejected
               ELSE Processed(UploadResult(upload))
    /\ pc' = "analyzed"
    /\ UNCHANGED <<text, lines, target, pdf>>

\* GET /stats answers
GetStats ==
    /\ ret' = [status |-> 200, success |-> TRUE,
               total_analysis_count |-> load_stats(data.stats_file).total_analysis_count,
               cpu_time_seconds |-> load_stats(data.stats_file).cpu_time_seconds]
    /\ pc' = "stats"
    /\ UNCHANGED <<report, text, lines, i, data, target, pdf, result>>

NextStats == AnalyzePdf \/ GetStats

SpecStats == InitStats /\ [][NextStats]_vars

\* C22: after any sequence of POST /analyze requests, GET /stats reports a
\* total_analysis_count equal to the number of analyses that succeeded so
\* far, the count the successful analyze responses return, and failed
\* analyses never increase it.
C22_StatsCountsSuccesses ==
    /\ pc = "stats" => ret.total_analysis_count = i
    /\ (pc = "analyzed" /\ ret.success) => ret.total_analysis_count = i
    /\ data.total_analysis_count = i

\* C23: whenever an orchestrator calls interpolate_volume (a success with a
\* most probable diameter that parses), the series it passes is sorted
\* ascending by average_pore_diameter, for every series a backend returns.
C23_VolumeLookupSortedByDiameter ==
    (/\ pc = "returned" /\ report.backend \in {"A", "B"} /\ result.success
     /\ report.mp # <<>> /\ FloatOk(report.mp))
    => \A k \in 1..(Len(result.nldft_data) - 1) :
           RLe(result.nldft_data[k].average_pore_diameter,
               result.nldft_data[k + 1].average_pore_diameter)

(***************************************************************************)
(* Specification of the scan region of parse_nldft_pairs: the steps of     *)
(* SpecLines on texts that also carry a table row or an end anchor before  *)
(* the start anchor.                                                       *)
(***************************************************************************)
RegionReports ==
    {r \in [before : {"none", "row", "end"}, start : BOOLEAN,
            rows : {rs \in RowLayouts : Len(rs) <= 2},
            spaced : {FALSE}, endAfter : -1..2] :
        r.endAfter <= Len(r.rows)}

\* a well-formed row with its adsorption cell, or the end anchor, ahead of
\* the block
LinesBefore(rep) ==
    IF rep.before = "row" THEN RowLines(7, [avg |-> "ok", diff |-> "ok", int |-> "ok",
                                            trail |-> "num"])
    ELSE IF rep.before = "end" THEN <<C.Adsorption \o C.DetailedTestData>>
    ELSE <<>>

RegionText(rep) ==
    JoinLines(<<TitleLine>> \o LinesBefore(rep) \o BlockLines(rep), rep.spaced)

InitRegion ==
    /\ pc = "parse"
    /\ report \in RegionReports
    /\ text = RegionText(report)
    /\ lines = <<>>
    /\ i = 0
    /\ data = <<>>
    /\ target = RZero
    /\ ret = RZero
    /\ pdf = <<>>
    /\ result = <<>>

SpecRegion == InitRegion /\ [][NextLines]_vars

\* the report cut down to its scan region: nothing before the start
\* anchor, the rows before the end anchor, no end anchor
RegionOnly(rep) ==
    [rep EXCEPT !.before = "none",
                !.rows = SubSeq(rep.rows, 1, ScannedRows(rep)),
                !.endAfter = -1]

\* C24: the text backend takes samples only from the text between the first
\* start anchor and the first end anchor after it: the series is the one
\* the region alone gives, no sample comes from a row before the start
\* anchor or after the end anchor, and without a start anchor the series is
\* empty.
C24_SamplesFromRegionOnly ==
    pc = "done" =>
        /\ ~report.start => data = <<>>
        /\ report.start => data = parse_nldft_pairs(RegionText(RegionOnly(report)))
        /\ \A k \in 1..Len(data) :
               /\ data[k] # RowSample(7)
               /\ data[k].average_pore_diameter # ParseFloat(AvgTok(7))
               /\ \A r \in (ScannedRows(report) + 1)..Len(report.rows) :
                      /\ data[k] # RowSample(r)
                      /\ data[k].average_pore_diameter # ParseFloat(AvgTok(r))

\* a well-formed row before the start anchor, one in the region and one
\* after the end anchor: only the row of the region gives a sample
C24_Witness ==
    /\ pc = "done" /\ report.start /\ report.before = "row"
    /\ Len(report.rows) = 2 /\ report.endAfter = 1
    /\ WellFormed(report.rows[1]) /\ WellFormed(report.rows[2])
    /\ data = <<RowSample(1)>>

(***************************************************************************)
(* parse_nldft_pairs of pdf_processor_v2.py: the groups P/P0, range,       *)
(* average diameter, differential volume, integral volume and the optional *)
(* adsorption cell, one cell per line, after the first start line.         *)
(***************************************************************************)
\* _range_re = ^\d+(?:\.\d+)?\s*-\s*\d+(?:\.\d+)?$
v2_range_re(s) ==
    LET q == DecimalEnd(s, 1)
        h == SkipSpaces(s, q)
    IN  /\ q # 0
        /\ h <= Len(s)
        /\ s[h] = "-"
        /\ DecimalEnd(s, SkipSpaces(s, h + 1)) = Len(s) + 1

\* "kong zhi jing fan wei" (pore diameter range), the column header that
\* also starts the table
PoreDiameterRange == <<"kong3", "zhi2", "jing4", "fan4", "wei2">>

\* the test of the start line
v2_is_start_line(line) ==
    \/ Contains(C.NLDFT \o C.DetailedData, line)
    \/ Contains(C.DetailedData \o C.NLDFT, line)
    \/ (Contains(C.NLDFT, line) /\ Contains(C.DetailedData, line))
    \/ Contains(PoreDiameterRange, line)

\* start_idx: the 0-based index of the first start line at or after idx,
\* -1 for None
RECURSIVE v2_start_idx(_, _)
v2_start_idx(ls, idx) ==
    IF idx >= Len(ls) THEN -1
    ELSE IF v2_is_start_line(ls[idx + 1]) THEN idx
    ELSE v2_start_idx(ls, idx + 1)

\* the loop condition: while i < len(lines) - 5
v2_scan_guard(ls, idx) == idx < Len(ls) - 5

\* One iteration of the while loop, with i0 the index after the leading
\* _next_nonempty, j, k, m, n the indexes of the fields after it and c the
\* stripped lines at i0, j, k, m, n: what it does (kind), the index it
\* leaves in i, and the sample it appends.
v2_scan_iter_at(ls, i0, j, k, m, n, c) ==
    LET none == NldftData(RZero, RZero) IN
    IF i0 >= Len(ls) THEN [kind |-> "break", i |-> i0, row |-> none]
    ELSE IF ~float_re(c[1])
    THEN [kind |-> "skip", i |-> i0 + 1, row |-> none]
    ELSE IF j >= Len(ls) \/ ~v2_range_re(c[2])
    THEN [kind |-> "retry", i |-> j, row |-> none]
    ELSE IF k >= Len(ls) \/ ~float_re(c[3])
    THEN [kind |-> "retry", i |-> k, row |-> none]
    ELSE IF m >= Len(ls) \/ ~float_re(c[4])
    THEN [kind |-> "retry", i |-> m, row |-> none]
    ELSE IF n >= Len(ls) \/ ~float_re(c[5])
    THEN [kind |-> "retry", i |-> n, row |-> none]
    ELSE [kind |-> "emit", i |-> next_nonempty(ls, n + 1),
          row |-> NldftData(ParseFloat(c[3]), ParseFloat(c[5]))]

\* i = _next_nonempty(lines, i), then j, k, m, n = _next_nonempty of the
\* index after the field before, and the stripped lines, each computed once
v2_scan_iter(ls, idx) ==
    CHOOSE it \in
        UNION {UNION {UNION {UNION {UNION {{v2_scan_iter_at(ls, i0, j, k, m, n, c) :
                c \in {<<StripAt(ls, i0), StripAt(ls, j), StripAt(ls, k),
                         StripAt(ls, m), StripAt(ls, n)>>}} :
                n \in {next_nonempty(ls, m + 1)}} :
                m \in {next_nonempty(ls, k + 1)}} :
                k \in {next_nonempty(ls, j + 1)}} :
                j \in {next_nonempty(ls, i0 + 1)}} :
                i0 \in {next_nonempty(ls, idx)}} : TRUE

\* the while loop run to its end: the rows appended, in scan order
RECURSIVE v2_scan_rows(_, _, _)
v2_scan_rows(ls, idx, acc) ==
    IF ~v2_scan_guard(ls, idx) THEN acc
    ELSE LET it == v2_scan_iter(ls, idx) IN
         IF it.kind = "break" THEN acc
         ELSE IF it.kind = "emit" THEN v2_scan_rows(ls, it.i, Append(acc, it.row))
         ELSE v2_scan_rows(ls, it.i, acc)

v2_parse_nldft_pairs(t) ==
    LET ls == SplitLines(t)
        start_idx == v2_start_idx(ls, 0)
    IN  IF start_idx = -1 THEN <<>>
        ELSE SortByVolume(v2_scan_rows(ls, start_idx + 1, <<>>))

(***************************************************************************)
(* Texts for pdf_processor_v2.parse_nldft_pairs: a title line, a start     *)
(* line, up to two groups (each cell "ok" or malformed as above, with or   *)
(* without the adsorption cell) and up to MaxTail lines of other text      *)
(* after the last group.                                                   *)
(***************************************************************************)
MaxTail == 2

\* the relative pressure cell of a group
PTok == <<"0", ".", "3">>

StartKinds == {"none", "nldft", "header"}

V2Reports ==
    [anchor : StartKinds, rows : {rs \in RowLayouts : Len(rs) <= 2},
     spaced : BOOLEAN, tail : 0..MaxTail]

V2StartLines(rep) ==
    IF rep.anchor = "nldft" THEN <<C.NLDFT \o C.DetailedData>>
    ELSE IF rep.anchor = "header" THEN <<PoreDiameterRange>>
    ELSE <<>>

RECURSIVE V2GroupLines(_, _)
V2GroupLines(rows, k) ==
    IF k > Len(rows) THEN <<>>
    ELSE <<PTok>> \o RowLines(k, rows[k]) \o V2GroupLines(rows, k + 1)

V2Text(rep) ==
    JoinLines(<<TitleLine>> \o V2StartLines(rep) \o V2GroupLines(rep.rows, 1)
                  \o [t \in 1..rep.tail |-> JunkTok],
              rep.spaced)

(***************************************************************************)
(* Specification of pdf_processor_v2.parse_nldft_pairs, one loop iteration *)
(* per step.                                                               *)
(***************************************************************************)
InitPairsV2 ==
    /\ pc = "v2parse"
    /\ report \in V2Reports
    /\ text = V2Text(report)
    /\ lines = <<>>
    /\ i = 0
    /\ data = <<>>
    /\ target = RZero
    /\ ret = RZero
    /\ pdf = <<>>
    /\ result = <<>>

\* no line passes the start test: return []
V2NoStart ==
    /\ pc = "v2parse"
    /\ v2_start_idx(SplitLines(text), 0) = -1
    /\ lines' = SplitLines(text)
    /\ pc' = "v2done"
    /\ UNCHANGED <<report, text, i, data, target, ret, pdf, result>>

\* i = start_idx + 1
V2Locate ==
    /\ pc = "v2parse"
    /\ v2_start_idx(SplitLines(text), 0) # -1
    /\ lines' = SplitLines(text)
    /\ i' = v2_start_idx(SplitLines(text), 0) + 1
    /\ data' = <<>>
    /\ pc' = "v2scan"
    /\ UNCHANGED <<report, text, target, ret, pdf, result>>

\* lines[i] is no decimal (i += 1), or a later field of the group fails
\* (i moves to that field)
V2Advance ==
    /\ pc = "v2scan"
    /\ v2_scan_guard(lines, i)
    /\ \E it \in {v2_scan_iter(lines, i)} :
          /\ it.kind \in {"skip", "retry"}
          /\ i' = it.i
    /\ UNCHANGED <<pc, report, text, lines, data, target, ret, pdf, result>>

\* the five fields validate: append the sample, move past the group
V2Emit ==
    /\ pc = "v2scan"
    /\ v2_scan_guard(lines, i)
    /\ \E it \in {v2_scan_iter(lines, i)} :
          /\ it.kind = "emit"
          /\ data' = Append(data, it.row)
          /\ i' = it.i
    /\ UNCHANGED <<pc, report, text, lines, target, ret, pdf, result>>

\* the loop condition is false, or only blank lines are left (break)
V2Exit ==
    /\ pc = "v2scan"
    /\ \/ ~v2_scan_guard(lines, i)
       \/ v2_scan_iter(lines, i).kind = "break"
    /\ pc' = "v2sort"
    /\ UNCHANGED <<report, text, lines, i, data, target, ret, pdf, result>>

\* data.sort(key=...); return data
V2SortAndReturn ==
    /\ pc = "v2sort"
    /\ data' = SortByVolume(data)
    /\ pc' = "v2done"
    /\ UNCHANGED <<report, text, lines, i, target, ret, pdf, result>>

NextPairsV2 ==
    \/ V2NoStart
    \/ V2Locate
    \/ V2Advance
    \/ V2Emit
    \/ V2Exit
    \/ V2SortAndReturn

SpecPairsV2 == InitPairsV2 /\ [][NextPairsV2]_vars

AllComplete(rep) == \A k \in 1..Len(rep.rows) : WellFormed(rep.rows[k])

\* C25: pdf_processor_v2.parse_nldft_pairs returns exactly one sample for
\* every complete group after the start line, with or without the
\* adsorption cell, also for the last group when nothing follows it.
C25_OneSamplePerGroup ==
    (pc = "v2done" /\ report.anchor # "none" /\ AllComplete(report)) =>
        /\ Len(data) = Len(report.rows)
        /\ \A k \in 1..Len(report.rows) : \E p \in 1..Len(data) : data[p] = RowSample(k)

(***************************************************************************)
(* Tables for the row loop of extract_nldft_data: two tables, each with    *)
(* its header rows (complete, without the average-diameter header, without *)
(* the integral-volume header, or without the NLDFT marker), an optional   *)
(* units row under the header that carries numbers but is no data row, and *)
(* data rows whose diameter cell is a four-decimal number, a zero, or a    *)
(* number with fewer or more decimals.  The first table holds row 1, the   *)
(* second rows 2 and 3.                                                    *)
(***************************************************************************)
AppendCells == {"d1", "d2", "zero", "short", "long"}

AppendTok(kind) ==
    IF kind = "long" THEN <<"2", ".", "0", "0", "0", "0", "0">> ELSE DiameterTok(kind)

HeaderKinds == {"full", "no_avg", "no_int", "no_marker"}

AppendHeaderRows(header) ==
    (IF header = "no_marker" THEN <<>> ELSE <<<<C.NLDFT>>>>)
    \o <<<<H_Range,
           IF header = "no_avg" THEN U.nm
           ELSE L.zh_average_pore_diameter \o <<"(">> \o U.nm \o <<")">>,
           IF header = "no_int" THEN U.nm ELSE L.zh_pore_integral_volume>>>>

UnitsRow == <<U.nm, <<"7", ".", "0", "0", "0", "0">>, <<"0", ".", "7">>>>

AppendRows(tab, first) ==
    AppendHeaderRows(tab.header)
    \o (IF tab.units THEN <<UnitsRow>> ELSE <<>>)
    \o [k \in 1..Len(tab.cells) |->
            <<RangeTok(first + k - 1), AppendTok(tab.cells[k]), VolumeTok(first + k - 1)>>]

AppendReports ==
    [first : [header : HeaderKinds, units : BOOLEAN,
              cells : UNION {[1..n -> AppendCells] : n \in 0..1}],
     second : [header : {"full", "no_int"}, units : BOOLEAN,
               cells : UNION {[1..n -> AppendCells] : n \in 0..2}]]

AppendTables(rep) ==
    <<ExtractedTable(1, 0, AppendRows(rep.first, 1)),
      ExtractedTable(1, 1, AppendRows(rep.second, 2))>>

(***************************************************************************)
(* Specification of extract_nldft_data, one table of the loop per step.    *)
(***************************************************************************)
InitAppend ==
    /\ pc = "tables"
    /\ report \in AppendReports
    /\ pdf = AppendTables(report)
    /\ text = <<>>
    /\ lines = <<>>
    /\ i = 0
    /\ data = <<>>
    /\ target = RZero
    /\ ret = RZero
    /\ result = <<>>

\* one iteration of "for table in tables": the table is skipped or its
\* accepted rows are appended to aggregated_rows
AppendTableRows ==
    /\ pc = "tables"
    /\ i < Len(pdf)
    /\ data' = data \o TableSamples(pdf[i + 1].rows)
    /\ i' = i + 1
    /\ UNCHANGED <<pc, report, text, lines, target, ret, pdf, result>>

\* after the loop: return [], raise on a descending diameter, or sort and
\* return
CheckAndSort ==
    /\ pc = "tables"
    /\ i = Len(pdf)
    /\ result' = extract_nldft_data(pdf)
    /\ pc' = "extracted"
    /\ UNCHANGED <<report, text, lines, i, data, target, ret, pdf>>

NextAppend ==
    \/ AppendTableRows
    \/ CheckAndSort

SpecAppend == InitAppend /\ [][NextAppend]_vars

\* what the rule of the claim gives for one table whose first data row is
\* row number first: a sample for each four-decimal non-zero diameter of a
\* table with both headers, with the volume of the row to six decimals
RuleSamples(tab, first) ==
    LET Numbered == [k \in 1..Len(tab.cells) |-> [cell |-> tab.cells[k], no |-> first + k - 1]]
        Accepted(r) == r.cell \in {"d1", "d2"}
        kept == SelectSeq(Numbered, Accepted)
        Diameter(cell) == IF cell = "d1" THEN Rat(1, 1) ELSE Rat(2, 1)
        Volume(no) == IF no = 1 THEN Rat(1, 10) ELSE IF no = 2 THEN Rat(1, 2) ELSE Rat(9, 10)
    IN  IF tab.header # "full" THEN <<>>
        ELSE [k \in 1..Len(kept) |-> NldftData(Diameter(kept[k].cell), Volume(kept[k].no))]

\* C26: the table backend appends a sample only for a data row of a
\* candidate table with both the average-diameter and the integral-volume
\* column, and only when the diameter cell is a non-zero number with
\* exactly four decimals; the volume is rounded to six decimals; a table
\* lacking a column adds nothing and the tables after it are still read.
C26_AppendedSamples ==
    /\ pc \in {"tables", "extracted"} =>
          data = (IF i >= 1 THEN RuleSamples(report.first, 1) ELSE <<>>)
                     \o (IF i >= 2 THEN RuleSamples(report.second, 2) ELSE <<>>)
    /\ (pc = "extracted" /\ ~result.raised) =>
          /\ Len(result.rows) = Len(data)
          /\ \A k \in 1..Len(data) : \E p \in 1..Len(data) : result.rows[p] = data[k]

\* the first table lacks the integral-volume column, the second has a
\* units row and two accepted rows, the last with the volume 0.9000004
C26_Witness ==
    /\ pc = "extracted" /\ ~result.raised
    /\ report.first.header = "no_int" /\ report.first.cells = <<"d2">>
    /\ report.second.header = "full" /\ report.second.units
    /\ report.second.cells = <<"d1", "d2">>
    /\ data = <<NldftData(Rat(1, 1), Rat(1, 2)), NldftData(Rat(2, 1), Rat(9, 10))>>

(***************************************************************************)
(* The keyword locator of pdf_processor_v2.py: _find_near and              *)
(* extract_value_near_any, on the placed texts of extract_value_near.      *)
(***************************************************************************)
\* _find_near: the number of the number(unit) match, case ignored, whose
\* centre is closest to anchor_pos in the window around it; <<>> is None
v2_find_near(t, anchor_pos, unit, window) ==
    LET start   == Max2(0, anchor_pos - window \div 2)
        end     == IF Len(t) < anchor_pos + window \div 2 THEN Len(t)
                   ELSE anchor_pos + window \div 2
        segment == SubSeq(t, start + 1, end)
        rel     == anchor_pos - start
        ms      == NumUnitMatches(Lower(segment), 1, Lower(unit))
        best    == ClosestFrom(ms, 1, rel, 0)
    IN  IF ms = <<>> THEN <<>>
        ELSE RemoveCommas(SubSeq(segment, ms[best].a, ms[best].g - 1))

\* the candidates of the two loops, keyword by keyword and occurrence by
\* occurrence: score = (dist, neg_len), val; ref_pos = -1 is None
RECURSIVE v2_candidates(_, _, _, _, _, _)
v2_candidates(t, keywords, ki, unit, window, ref_pos) ==
    IF ki > Len(keywords) THEN <<>>
    ELSE LET occ == FindAll(keywords[ki], t)
             all == [o \in 1..Len(occ) |->
                        [dist |-> IF ref_pos # -1 THEN Abs(occ[o] - ref_pos) ELSE 0,
                         neg_len |-> 0 - Len(keywords[ki]),
                         val |-> v2_find_near(t, occ[o], unit, window)]]
             HasValue(c) == c.val # <<>>
         IN  SelectSeq(all, HasValue)
                \o v2_candidates(t, keywords, ki + 1, unit, window, ref_pos)

\* cand[0] < best[0] on the score tuples
ScoreLess(c, o) == c.dist < o.dist \/ (c.dist = o.dist /\ c.neg_len < o.neg_len)

\* best after the candidates from idx on; best = 0 is None
RECURSIVE v2_best(_, _, _)
v2_best(cands, idx, best) ==
    IF idx > Len(cands) THEN best
    ELSE IF best = 0 \/ ScoreLess(cands[idx], cands[best]) THEN v2_best(cands, idx + 1, idx)
    ELSE v2_best(cands, idx + 1, best)

\* extract_value_near_any; reference_keyword = <<>> is None
extract_value_near_any(t, keywords, unit, window, reference_keyword) ==
    LET ref_pos == IF reference_keyword = <<>> THEN -1 ELSE Find(reference_keyword, t, 0)
        cands   == v2_candidates(t, keywords, 1, unit, window, ref_pos)
        best    == v2_best(cands, 1, 0)
    IN  IF best = 0 THEN <<>> ELSE cands[best].val

\* the keywords of the most-probable-diameter call of process_pdf
MostProbableKeywords ==
    <<K.MostProbable,
      K.MostProbable \o <<"B", "J", "H">>,
      <<"B", "J", "H">> \o K.MostProbable,
      <<"S", "F">> \o K.MostProbable>>

InitNearAny ==
    /\ pc = "near_any"
    /\ report \in {rep \in NearReports :
                      /\ rep.kind = "placed"
                      /\ rep.bare \in rep.kws \cup {0}
                      /\ rep.use_ref \/ rep.refs = {100}}
    /\ text = PlacedText(report)
    /\ pdf = <<>>
    /\ lines = <<>>
    /\ i = 0
    /\ data = <<>>
    /\ target = RZero
    /\ ret = <<>>
    /\ result = <<>>

\* extract_value_near_any(text, [...], "nm", window[, "NLDFT"]) returns
CallExtractValueNearAny ==
    /\ pc = "near_any"
    /\ ret' = extract_value_near_any(text, MostProbableKeywords, U.nm, report.window,
                                     IF report.use_ref THEN C.NLDFT ELSE <<>>)
    /\ pc' = "located_any"
    /\ UNCHANGED <<report, text, lines, i, data, target, pdf, result>>

NextNearAny == CallExtractValueNearAny

SpecNearAny == InitNearAny /\ [][NextNearAny]_vars

\* C27: with a reference keyword given, pdf_processor_v2's
\* extract_value_near_any anchors at a keyword occurrence that minimises
\* the distance to an occurrence of the reference keyword, every occurrence
\* of the reference considered and the distance halved when the keyword
\* lies after the reference; with the reference at 100 and the keyword at
\* 80 and 130 it returns the value at 130.
C27_AnyDirectionalBias ==
    (/\ pc = "located_any" /\ report.use_ref
     /\ report.refs # {} /\ report.kws # {} /\ report.bare = 0 /\ report.window >= 200)
    => /\ \E p \in NearestToReference(report) : ret = NoCommas(ValueAt(p))
       /\ (report.refs = {100} /\ report.kws = {80, 130}) => ret = ValueAt(130)

(***************************************************************************)
(* The two row scans together, from loop entry to the return:              *)
(* parse_nldft_pairs of pdf_processor.py on the block texts with up to two *)
(* rows and no end anchor, and parse_nldft_pairs of pdf_processor_v2.py on *)
(* its texts with a start line.  The loop is sequential code: an iteration *)
(* that can run does run.                                                  *)
(***************************************************************************)
ScanReports == {r \in Reports : r.start /\ Len(r.rows) <= 2 /\ r.endAfter < 0}

V2ScanReports == {r \in V2Reports : r.anchor = "nldft"}

\* the state LocateBlock and V2Locate leave: the lines to scan and the
\* first index
InitScans ==
    /\ pc \in {"scan", "v2scan"}
    /\ report \in (IF pc = "scan" THEN ScanReports ELSE V2ScanReports)
    /\ text = (IF pc = "scan"
               THEN JoinLines(<<TitleLine>> \o BlockLines(report), report.spaced)
               ELSE V2Text(report))
    /\ lines = (IF pc = "scan" THEN NldftBlockLines(text).lines ELSE SplitLines(text))
    /\ i = (IF pc = "scan" THEN 0 ELSE v2_start_idx(lines, 0) + 1)
    /\ data = <<>>
    /\ target = RZero
    /\ ret = RZero
    /\ pdf = <<>>
    /\ result = <<>>

NextScans ==
    \/ ScanSkip
    \/ ScanRetry
    \/ ScanBreak
    \/ ScanEmit
    \/ ScanEnd
    \/ SortAndReturn
    \/ V2Advance
    \/ V2Emit
    \/ V2Exit
    \/ V2SortAndReturn

SpecScans == InitScans /\ [][NextScans]_vars /\ WF_vars(NextScans)

\* C28: the row scan of both text parsers terminates: an iteration that
\* does not leave the loop strictly increases the line index, on the retry
\* paths and after the optional trailing cell too, and every call returns.
C28_ScanTerminates ==
    /\ [][/\ (pc = "scan" /\ pc' = "scan") => (i' > i /\ i < Len(lines))
          /\ (pc = "v2scan" /\ pc' = "v2scan") => (i' > i /\ i < Len(lines))]_vars
    /\ <>(pc \in {"done", "v2done"})

\* a scan of pdf_processor_v2 over a malformed group and a group with its
\* trailing cell has returned
C28_Witness ==
    /\ pc = "v2done" /\ report.anchor # "none" /\ report.spaced
    /\ Len(report.rows) = 2
    /\ report.rows[1].diff = "junk"
    /\ report.rows[2].trail = "num" /\ WellFormed(report.rows[2])
    /\ i >= Len(lines) - 5


\* ---------------------------------------------------------------------------
\* The interpolation walks and the orchestrator's divisions, one step at a time
\* (pdf_processor.py 259-300 and 347-370).  `text` names the value being
\* computed, `i` is the row the loop is at, `ret` the row held in `lower`
\* (0 for None), `lines` the divisors used so far, `result` the values so far.
\* ---------------------------------------------------------------------------

\* the walks of the orchestrator and of a direct call, and the function each runs
WalkStages == {"d10", "d90", "volume_0_5D", "volume_1_5D", "diameter", "volume"}

WalkFn(stage) == IF stage \in {"d10", "d90", "diameter"} THEN "diameter" ELSE "volume"

\* the field a walk compares with its target, and the field it returns
WalkKey(fn, row) ==
    IF fn = "diameter" THEN row.pore_integral_volume ELSE row.average_pore_diameter

WalkOut(fn, row) ==
    IF fn = "diameter" THEN row.average_pore_diameter ELSE row.pore_integral_volume

\* what one loop iteration does with a row, given whether `lower` is set
WalkKind(key, t, lower) ==
    IF IsClose(key, t) THEN "exact"
    ELSE IF RLt(key, t) THEN "below"
    ELSE IF RLt(t, key) THEN (IF lower = 0 THEN "first" ELSE "bracket")
    ELSE "next"

\* targets of a direct call
WalkTargets == {<<0, 1>>, <<3, 10>>, <<1, 2>>, <<1, 1>>, <<3, 2>>}

\* the longest series walked: three rows let a bracket form on a series that
\* repeats a key or is out of order on it
MaxWalkRows == 3

\* a report processed by the orchestrator, or a series handed to one function
WalkReports ==
    [mode : {"process"},
     rows : UNION {[1..n -> ValueRows] : n \in 1..MaxWalkRows},
     total : TotalToks, mp : MostProbableToks, target : {RZero}]
    \cup [mode : {"diameter", "volume"},
          rows : UNION {[1..n -> ValueRows] : n \in 0..MaxWalkRows},
          total : {<<"4">>}, mp : {<<>>}, target : WalkTargets]

\* the orchestrator's series is sorted by volume, a direct call's is as given
WalkSeries(rep) ==
    IF rep.mode = "process" THEN ValueSeries(rep)
    ELSE [k \in 1..Len(rep.rows) |->
             NldftData(ParseFloat(rep.rows[k][1]), ParseFloat(rep.rows[k][2]))]

WalkValues == WalkStages \cup {"d90_d10_ratio", "pore_volume_A", "less_than_0_5D",
                               "greater_than_1_5D"}

InitWalk ==
    /\ pc = "enter"
    /\ report \in WalkReports
    /\ data = WalkSeries(report)
    /\ text = ""
    /\ lines = <<>>
    /\ i = 0
    /\ ret = 0
    /\ target = RZero
    /\ result = [s \in WalkValues |-> RZero]
    /\ pdf = <<>>

\* a call of one of the two functions starts its loop at the first row
BeginWalk(stage, t) ==
    /\ pc' = "walk"
    /\ text' = stage
    /\ target' = t
    /\ i' = 1
    /\ ret' = 0

\* a walk returns v
ReturnWalk(v) ==
    /\ pc' = "returned"
    /\ result' = [result EXCEPT ![text] = v]
    /\ UNCHANGED <<report, text, lines, i, data, target, ret, pdf>>

\* lines 350-352: d10_int = total * 0.1, then interpolate_diameter(d10_int, nldft)
EnterProcess ==
    /\ pc = "enter"
    /\ report.mode = "process"
    /\ BeginWalk("d10", RMul(ParseFloat(report.total), <<1, 10>>))
    /\ UNCHANGED <<report, lines, data, pdf, result>>

\* a direct call of interpolate_diameter or interpolate_volume
EnterCall ==
    /\ pc = "enter"
    /\ report.mode # "process"
    /\ BeginWalk(report.mode, report.target)
    /\ UNCHANGED <<report, lines, data, pdf, result>>

\* lines 261-262 and 283-284
WalkEmpty ==
    /\ pc = "walk"
    /\ data = <<>>
    /\ ReturnWalk(RZero)

\* lines 265-266 and 287-288
WalkExact ==
    /\ pc = "walk"
    /\ i <= Len(data)
    /\ WalkKind(WalkKey(WalkFn(text), data[i]), target, ret) = "exact"
    /\ ReturnWalk(WalkOut(WalkFn(text), data[i]))

\* lines 267-268 and 289-290: the row becomes `lower`, or the row is passed over
WalkNext ==
    /\ pc = "walk"
    /\ i <= Len(data)
    /\ \E kind \in {WalkKind(WalkKey(WalkFn(text), data[i]), target, ret)} :
          /\ kind \in {"below", "next"}
          /\ ret' = IF kind = "below" THEN i ELSE ret
    /\ i' = i + 1
    /\ UNCHANGED <<pc, report, text, lines, data, target, pdf, result>>

\* lines 270-271 and 292-293
WalkFirstAbove ==
    /\ pc = "walk"
    /\ i <= Len(data)
    /\ WalkKind(WalkKey(WalkFn(text), data[i]), target, ret) = "first"
    /\ ReturnWalk(WalkOut(WalkFn(text), data[i]))

\* lines 269 and 291 with `lower` set: the loop reaches the interpolation
WalkBracket ==
    /\ pc = "walk"
    /\ i <= Len(data)
    /\ WalkKind(WalkKey(WalkFn(text), data[i]), target, ret) = "bracket"
    /\ pc' = "interpolate"
    /\ UNCHANGED <<report, text, lines, i, data, target, ret, pdf, result>>

\* lines 272-277 and 294-299
Interpolate ==
    /\ pc = "interpolate"
    /\ \E fn \in {WalkFn(text)} :
       \E dx \in {RSub(WalkKey(fn, data[i]), WalkKey(fn, data[ret]))} :
          IF dx = RZero
          THEN /\ lines' = lines
               /\ result' = [result EXCEPT ![text] = WalkOut(fn, data[ret])]
          ELSE /\ lines' = Append(lines, dx)
               /\ result' = [result EXCEPT ![text] =
                                Linear(WalkKey(fn, data[ret]), WalkOut(fn, data[ret]),
                                       WalkKey(fn, data[i]), WalkOut(fn, data[i]), target)]
    /\ pc' = "returned"
    /\ UNCHANGED <<report, text, i, data, target, ret, pdf>>

\* lines 278 and 300
WalkEnd ==
    /\ pc = "walk"
    /\ data # <<>>
    /\ i > Len(data)
    /\ ReturnWalk(WalkOut(WalkFn(text), data[Len(data)]))

\* line 352: d90 = interpolate_diameter(d90_int, nldft)
EnterD90 ==
    /\ pc = "returned"
    /\ text = "d10"
    /\ BeginWalk("d90", RMul(ParseFloat(report.total), <<9, 10>>))
    /\ UNCHANGED <<report, lines, data, pdf, result>>

\* lines 353-356: the ratio and the pore volume A
DivideRatio ==
    /\ pc = "returned"
    /\ text = "d90"
    /\ pc' = "ratio"
    /\ lines' = IF result["d10"] # RZero THEN Append(lines, result["d10"]) ELSE lines
    /\ result' = [result EXCEPT
                    !["d90_d10_ratio"] = IF result["d10"] # RZero
                                         THEN RDiv(result["d90"], result["d10"]) ELSE RZero,
                    !["pore_volume_A"] = MaxVolume(data, 2, data[1].pore_integral_volume)]
    /\ UNCHANGED <<report, text, i, data, target, ret, pdf>>

\* lines 359-363: the most probable diameter parsed
EnterHalfD ==
    /\ pc = "ratio"
    /\ report.mp # <<>> /\ FloatOk(report.mp)
    /\ BeginWalk("volume_0_5D", RMul(ParseFloat(report.mp), Half))
    /\ UNCHANGED <<report, lines, data, pdf, result>>

\* lines 371-376: no most probable diameter, the fractions are 0.0
SkipFractions ==
    /\ pc = "ratio"
    /\ ~(report.mp # <<>> /\ FloatOk(report.mp))
    /\ pc' = "finished"
    /\ UNCHANGED <<report, text, lines, i, data, target, ret, pdf, result>>

\* lines 364-367: less_than_0_5D, then interpolate_volume(d1_5, nldft)
DivideLess ==
    /\ pc = "returned"
    /\ text = "volume_0_5D"
    /\ \E A \in {result["pore_volume_A"]} :
          /\ lines' = IF AboveTiny(A, 9) THEN Append(lines, A) ELSE lines
          /\ result' = [result EXCEPT !["less_than_0_5D"] =
                           IF AboveTiny(A, 9)
                           THEN RMul(RDiv(result["volume_0_5D"], A), Hundred) ELSE RZero]
    /\ BeginWalk("volume_1_5D", RMul(ParseFloat(report.mp), OneAndHalf))
    /\ UNCHANGED <<report, data, pdf>>

\* line 368: greater_than_1_5D
DivideGreater ==
    /\ pc = "returned"
    /\ text = "volume_1_5D"
    /\ \E A \in {result["pore_volume_A"]} :
          /\ lines' = IF AboveTiny(A, 9) THEN Append(lines, A) ELSE lines
          /\ result' = [result EXCEPT !["greater_than_1_5D"] =
                           IF AboveTiny(A, 9)
                           THEN RMul(RDiv(RSub(A, result["volume_1_5D"]), A), Hundred)
                           ELSE RZero]
    /\ pc' = "finished"
    /\ UNCHANGED <<report, text, i, data, target, ret, pdf>>

\* a direct call hands its value back
ReturnCall ==
    /\ pc = "returned"
    /\ text \in {"diameter", "volume"}
    /\ pc' = "finished"
    /\ UNCHANGED <<report, text, lines, i, data, target, ret, pdf, result>>

NextWalk ==
    \/ EnterProcess \/ EnterCall
    \/ WalkEmpty \/ WalkExact \/ WalkNext \/ WalkFirstAbove \/ WalkBracket
    \/ Interpolate \/ WalkEnd
    \/ EnterD90 \/ DivideRatio \/ EnterHalfD \/ SkipFractions
    \/ DivideLess \/ DivideGreater \/ ReturnCall

SpecWalk == InitWalk /\ [][NextWalk]_vars

\* C29: no derived-metric computation divides by zero: at the interpolation
\* step of either walk the two bracketing rows have strictly different keys
\* (lower's key below the target, the row's key above it), also on series that
\* are unsorted on the key or repeat it, and every divisor the walks and the
\* orchestrator's ratio and percentages use is non-zero.
C29_NoDivisionByZero ==
    /\ pc = "interpolate" =>
          /\ RLt(WalkKey(WalkFn(text), data[ret]), target)
          /\ RLt(target, WalkKey(WalkFn(text), data[i]))
          /\ WalkKey(WalkFn(text), data[ret]) # WalkKey(WalkFn(text), data[i])
    /\ \A k \in 1..Len(lines) : lines[k][1] # 0 /\ lines[k][2] # 0

\* the orchestrator has divided by d10 and by the pore volume A and is at the
\* interpolation step of interpolate_volume on a series whose diameters are
\* out of order
C29_Witness ==
    /\ pc = "interpolate"
    /\ report.mode = "process"
    /\ text = "volume_1_5D"
    /\ \E a, b \in 1..Len(data) :
          a < b /\ RLt(data[b].average_pore_diameter, data[a].average_pore_diameter)
    /\ \E k \in 1..Len(lines) : lines[k] = result["d10"]
    /\ \E k \in 1..Len(lines) : lines[k] = result["pore_volume_A"]

\* C30: interpolate_volume on a non-empty series returns a value between the
\* smallest and the largest integral volume of the series, also when the
\* diameters are out of order; and on every successful run of the orchestrator
\* whose series has only non-negative integral volumes and whose most probable
\* diameter parsed, 0 <= less_than_0_5D <= 100 and 0 <= greater_than_1_5D <= 100.
C30_FractionsArePercentages ==
    /\ (pc = "returned" /\ WalkFn(text) = "volume" /\ data # <<>>) =>
          \E a, b \in 1..Len(data) :
             /\ RLe(data[a].pore_integral_volume, result[text])
             /\ RLe(result[text], data[b].pore_integral_volume)
    /\ (/\ pc = "finished"
        /\ report.mode = "process"
        /\ report.mp # <<>> /\ FloatOk(report.mp)
        /\ \A k \in 1..Len(data) : RLe(RZero, data[k].pore_integral_volume)) =>
          /\ RLe(RZero, result["less_than_0_5D"])
          /\ RLe(result["less_than_0_5D"], Hundred)
          /\ RLe(RZero, result["greater_than_1_5D"])
          /\ RLe(result["greater_than_1_5D"], Hundred)

\* a finished run on non-negative volumes with diameters out of order whose
\* volume at 1.5 D was interpolated and whose two fractions lie strictly
\* between 0 and 100
C30_Witness ==
    /\ pc = "finished"
    /\ report.mode = "process"
    /\ report.mp # <<>> /\ FloatOk(report.mp)
    /\ \A k \in 1..Len(data) : RLe(RZero, data[k].pore_integral_volume)
    /\ \E a, b \in 1..Len(data) :
          a < b /\ RLt(data[b].average_pore_diameter, data[a].average_pore_diameter)
    /\ \A k \in 1..Len(data) : data[k].pore_integral_volume # result["volume_1_5D"]
    /\ RLt(RZero, result["less_than_0_5D"]) /\ RLt(result["less_than_0_5D"], Hundred)
    /\ RLt(RZero, result["greater_than_1_5D"]) /\ RLt(result["greater_than_1_5D"], Hundred)

=============================================================================
